---- MODULE Spec2Model ----
(***************************************************************************)
(* Model of the liqo-resource-agent: the advertisement publisher (record-  *)
(* store BrokerClient and HTTPCommunicator) and the metrics Collector.     *)
(***************************************************************************)
EXTENDS Integers, Sequences, FiniteSets, TLC

VARIABLES
    \* ---- deployment and broker side ----
    channel,      \* "k8s" (BrokerClient) or "http" (HTTPCommunicator)
    brokerAdvs,   \* the broker's advertisement records (a set of records)
    brokerLast,   \* the Reserved value the broker last wrote (None: never set)
    brokerWrites, \* number of broker-side writes so far
    \* ---- one PublishAdvertisement call ----
    pc,           \* "idle", "get", "write", "done"
    adv,          \* the advertisement handed to the call
    attempt,      \* number of the current attempt of the current retry loop
    existing,     \* result of the fetch of the current attempt
    outbound,     \* message built for the write of the current attempt
    lastErr,      \* lastErr of BrokerClient.PublishAdvertisement
    prevOutcome,  \* outcome of the request that preceded the current attempt
    lastOutcome,  \* outcome of the last request performed
    result,       \* what the call returned ("pending" while running)
    backoff,      \* delay the next retry will wait (ms, before jitter)
    slept,        \* delay waited before the current attempt (0: none)
    acked,        \* writes the broker acknowledged during the current call
    publishes,    \* PublishAdvertisement calls started so far
    \* ---- the local record store read by the Collector ----
    nodes,        \* NodeList.Items
    pods,         \* PodList.Items
    holds,        \* ProviderInstructionList.Items
    now,          \* time.Now() of calculateReservedResources
    acct,         \* what CollectClusterResources returned
    cycle,        \* how Reconcile went on after the collection
    \* ---- reservation delivery ----
    strategy,     \* discovery strategy of the agent: "watch" or "poll"
    reservations, \* the broker's reservations, by id (NoRsv: none)
    events,       \* watch events sent by the broker and not yet handled
    instr,        \* the agent's local instruction records
    instrB,       \* local records of a second agent that polls the same broker
    lastCall,     \* the upsert calls made by the handler that ran last
    clock,        \* time.Now() of the instruction reconcilers
    steps,        \* broker changes, reconnects and faults so far
    \* ---- start-up and the AdvertisementReconciler ----
    flags,        \* the broker flags main was started with
    wiring,       \* what main built and started from them
    collector,    \* the metrics.Collector (its ClusterIDOverride)
    kubeSystem,   \* the kube-system namespace as the store returns it
    localAdv,     \* the local Advertisement record: spec and status
    reconcile,    \* locals of the Reconcile in progress
    sent,         \* the PublishAdvertisement calls made so far
    returned,     \* what the last Reconcile returned
    cycles,       \* Reconcile calls started so far
    \* ---- the long-running tasks ----
    signal,       \* the process has received its termination signal
    wpc,          \* position of ReservationWatcher.Start
    wBackoff,     \* backoff of Start, in seconds
    failureCount, \* failureCount of Start
    wSlept,       \* the delay Start slept last (0: none yet)
    ppc,          \* position of ReservationPoller.Start
    fetchLog,     \* the FetchReservations calls of the last poll()
    ticks         \* firings of the poller's ticker so far

pubVars == <<channel, brokerAdvs, brokerLast, brokerWrites, pc, adv, attempt,
             existing, outbound, lastErr, prevOutcome, lastOutcome, result,
             backoff, slept, acked, publishes>>

acctVars == <<nodes, pods, holds, now, acct, cycle>>

dlvVars == <<strategy, reservations, events, instr, instrB, lastCall, clock,
             steps>>

cycVars == <<flags, wiring, collector, kubeSystem, localAdv, reconcile, sent,
             returned, cycles>>

tskVars == <<signal, wpc, wBackoff, failureCount, wSlept, ppc, fetchLog,
             ticks>>

vars == <<pubVars, acctVars, dlvVars, cycVars, tskVars>>

--------------------------------------------------------------------------
\* Bounds of the model
MaxPublishes == 2
MaxBrokerWrites == 2

--------------------------------------------------------------------------
\* Values
None == "none"
NoErr == "nil"
ClusterID == "cluster-a"
OtherCluster == "cluster-b"
ReservedValues == {"r1", "r2"}

\* fmt.Sprintf("%s-adv", b.ClusterID)
AdvName(id) == <<id, "-adv">>

\* wait.Backoff{Steps: 4, Duration: 500ms, Factor: 2.0, Jitter: 0.1}
Steps == 4
Duration == 500
Factor == 2

\* HTTPCommunicator: maxRetries 3, backoff 1s, maxBackoff 16s
maxRetries == 3
httpBackoff == 1000
maxBackoff == 16000

\* API errors the record store can answer with on any request
K8sFaults == {"Timeout", "ServerTimeout", "ServiceUnavailable",
              "TooManyRequests", "InternalError", "Unauthorized", "BadRequest"}

\* isTransientError of broker_client.go
isTransientError(err) ==
    err \in {"Timeout", "ServerTimeout", "ServiceUnavailable",
             "TooManyRequests", "InternalError"}

\* httpClient.Do returns either an error (no response) or a response
HttpTransportErrs == {"NetTimeout", "TLSHandshake"}

\* status code of a response (transport errors carry no response)
StatusCode(o) ==
    CASE o = "200" -> 200 [] o = "201" -> 201 [] o = "400" -> 400
      [] o = "401" -> 401 [] o = "404" -> 404 [] o = "429" -> 429
      [] o = "500" -> 500 [] o = "503" -> 503 [] OTHER -> 0

HttpFaultStatus == {"400", "401", "429", "500", "503"}

\* a GET that answers 200 with a body json.Decode rejects
Garbled == "200-undecodable"

NoFetch == [err |-> "unset", rv |-> 0, reserved |-> None]
NoMsg == [name |-> <<>>, metrics |-> 0, reserved |-> None, rv |-> 0]
NoAdv == [metrics |-> 0, localReserved |-> None]

\* the record the store holds under a name
RecordNamed(n) == {r \in brokerAdvs : r.name = n}
\* the advertisement records the broker holds for a cluster
RecordsOf(id) == {r \in brokerAdvs : r.cluster = id}

Min(a, b) == IF a < b THEN a ELSE b

--------------------------------------------------------------------------
\* Record-store channel: BrokerClient.PublishAdvertisement / publishOnce

\* mutant: a record name that changes from one attempt to the next
advNamePerAttempt ==
    <<ClusterID, IF attempt <= 1 THEN "-adv" ELSE "-adv-retry">>

\* name of the broker record: fmt.Sprintf("%s-adv", b.ClusterID)
advName == AdvName(ClusterID)

\* mutant: publish the locally computed Reserved total
reservedResourcesLocal(a, ex) == a.localReserved

\* reservedResources of publishOnce: the fetched record's reserved, when
\* the fetch succeeded
reservedResources(a, ex) ==
    IF ex.err = NoErr THEN ex.reserved ELSE None

\* resourceVersion put on the outbound object: the fetched record's
resourceVersionOf(ex) ==
    IF ex.err = NoErr THEN ex.rv ELSE 0

\* clusterAdv built by publishOnce
clusterAdv(a, ex) ==
    [name |-> advName, metrics |-> a.metrics,
     reserved |-> reservedResources(a, ex), rv |-> resourceVersionOf(ex)]

\* wait.Jitter(duration, 0.1): duration + rand[0,1) * 0.1 * duration
Jitter(d) == {d, d + (d \div 10) - 1}

\* answer of the record store to Get(name)
K8sGetOutcomes ==
    (IF RecordNamed(advName) = {} THEN {"NotFound"} ELSE {NoErr}) \cup K8sFaults

\* resourceClient.Get and the construction of clusterAdv
K8sGet(o) ==
    /\ channel = "k8s" /\ pc = "get"
    /\ o \in K8sGetOutcomes
    /\ existing' = IF o = NoErr
                   THEN LET r == CHOOSE r \in RecordNamed(advName) : TRUE
                        IN [err |-> NoErr, rv |-> r.rv, reserved |-> r.reserved]
                   ELSE [err |-> o, rv |-> 0, reserved |-> None]
    /\ outbound' = clusterAdv(adv, existing')
    /\ lastOutcome' = o
    /\ pc' = "write"
    /\ UNCHANGED <<channel, brokerAdvs, brokerLast, brokerWrites, adv, attempt,
                   lastErr, prevOutcome, result, backoff, slept, acked, publishes>>
    /\ UNCHANGED <<acctVars, dlvVars, cycVars, tskVars>>

\* publishOnce chooses Create when the Get returned an error, else Update
writeOp(ex) == IF ex.err # NoErr THEN "Create" ELSE "Update"

\* answer of the record store to Create/Update of msg (f: an injected fault)
StoreAnswer(op, msg, f) ==
    LET cur == RecordNamed(msg.name)
    IN IF f # "natural" THEN f
       ELSE IF op = "Create"
            THEN (IF cur # {} THEN "AlreadyExists" ELSE NoErr)
       ELSE IF cur = {} THEN "NotFound"
       ELSE IF msg.rv # 0 /\ \E r \in cur : r.rv # msg.rv THEN "Conflict"
       ELSE NoErr

\* the store after an accepted Create/Update of msg
StoreApply(msg) ==
    LET cur == RecordNamed(msg.name)
        rv == IF cur = {} THEN 1 ELSE (CHOOSE r \in cur : TRUE).rv + 1
    IN (brokerAdvs \ cur) \cup
       {[name |-> msg.name, cluster |-> ClusterID, rv |-> rv,
         reserved |-> msg.reserved, metrics |-> msg.metrics]}

\* the closure of PublishAdvertisement and wait.ExponentialBackoff, after
\* publishOnce returned err
AfterAttempt(err) ==
    IF err = NoErr
    THEN /\ pc' = "done" /\ result' = "ok" /\ acked' = acked + 1
         /\ UNCHANGED <<lastErr, attempt, backoff, slept, prevOutcome>>
    ELSE IF isTransientError(err)
    THEN /\ lastErr' = err
         /\ acked' = acked
         /\ IF attempt = Steps
            THEN /\ pc' = "done" /\ result' = err
                 /\ UNCHANGED <<attempt, backoff, slept, prevOutcome>>
            ELSE /\ pc' = "get" /\ result' = result
                 /\ attempt' = attempt + 1
                 /\ slept' \in Jitter(backoff)
                 /\ backoff' = backoff * Factor
                 /\ prevOutcome' = err
    ELSE /\ pc' = "done"
         /\ result' = (IF lastErr # NoErr THEN lastErr ELSE err)
         /\ UNCHANGED <<lastErr, attempt, backoff, slept, prevOutcome, acked>>

\* resourceClient.Create / resourceClient.Update and the retry decision
K8sWrite(f) ==
    /\ channel = "k8s" /\ pc = "write"
    /\ f \in {"natural"} \cup K8sFaults
    /\ LET err == StoreAnswer(writeOp(existing), outbound, f)
       IN /\ brokerAdvs' = IF err = NoErr THEN StoreApply(outbound) ELSE brokerAdvs
          /\ lastOutcome' = err
          /\ AfterAttempt(err)
    /\ UNCHANGED <<channel, brokerLast, brokerWrites, adv, existing, outbound,
                   publishes>>
    /\ UNCHANGED <<acctVars, dlvVars, cycVars, tskVars>>

--------------------------------------------------------------------------
\* HTTP channel: HTTPCommunicator.PublishAdvertisement / doWithRetry

\* doWithRetry retries when Do returned an error or a 5xx response
retryable(o) == o \in HttpTransportErrs \/ StatusCode(o) >= 500

\* doWithRetry gives up on the attempt with index maxRetries
lastAttempt(n) == n = maxRetries + 1

\* the body the broker answers GET /advertisements/{clusterID} with
HttpGetOutcomes ==
    (IF RecordsOf(ClusterID) = {} THEN {"404"} ELSE {"200", Garbled})
        \cup HttpFaultStatus \cup HttpTransportErrs

\* mutant: fall back to the locally computed Reserved when the fetch fails
preservedOrLocal(a, ex) ==
    IF ex.err = NoErr /\ ex.reserved # None THEN ex.reserved
    ELSE a.localReserved

\* STEP 1 of PublishAdvertisement: the Reserved field copied into adv
preserved(a, ex) ==
    IF ex.err = NoErr /\ ex.reserved # None THEN ex.reserved ELSE None

\* json.Marshal(adv) after STEP 1 (ToAdvertisementDTO leaves Reserved nil)
postBody(a, ex) ==
    [name |-> AdvName(ClusterID), metrics |-> a.metrics,
     reserved |-> preserved(a, ex), rv |-> 0]

\* one iteration of doWithRetry that does not return: wait, double, retry
RetryWait(o) ==
    /\ attempt' = attempt + 1
    /\ slept' = backoff
    /\ backoff' = Min(backoff * 2, maxBackoff)
    /\ prevOutcome' = o

\* GET of the existing advertisement, one Do per step
HttpGet(o) ==
    /\ channel = "http" /\ pc = "get"
    /\ o \in HttpGetOutcomes
    /\ lastOutcome' = o
    /\ IF retryable(o) /\ ~lastAttempt(attempt)
       THEN /\ RetryWait(o)
            /\ UNCHANGED <<pc, existing, outbound>>
       ELSE /\ existing' =
                 IF o = "200"
                 THEN LET r == CHOOSE r \in RecordsOf(ClusterID) : TRUE
                      IN [err |-> NoErr, rv |-> 0, reserved |-> r.reserved]
                 ELSE [err |-> o, rv |-> 0, reserved |-> None]
            /\ outbound' = postBody(adv, existing')
            /\ pc' = "write"
            /\ attempt' = 1 /\ backoff' = httpBackoff /\ slept' = 0
            /\ prevOutcome' = None
    /\ UNCHANGED <<channel, brokerAdvs, brokerLast, brokerWrites, adv, lastErr,
                   result, acked, publishes>>
    /\ UNCHANGED <<acctVars, dlvVars, cycVars, tskVars>>

\* the broker's upsert keyed by cluster identity; a message without
\* Reserved leaves the broker's own Reserved in place
ServerUpsert(msg) ==
    LET cur == RecordsOf(ClusterID)
        old == CHOOSE r \in cur : TRUE
    IN IF cur = {}
       THEN brokerAdvs \cup
            {[name |-> msg.name, cluster |-> ClusterID, rv |-> 1,
              reserved |-> msg.reserved, metrics |-> msg.metrics]}
       ELSE (brokerAdvs \ cur) \cup
            {[name |-> old.name, cluster |-> ClusterID, rv |-> old.rv + 1,
              reserved |-> IF msg.reserved # None THEN msg.reserved
                           ELSE old.reserved,
              metrics |-> msg.metrics]}

HttpPostOutcomes ==
    (IF RecordsOf(ClusterID) = {} THEN {"201"} ELSE {"200"})
        \cup HttpFaultStatus \cup HttpTransportErrs

\* POST of the advertisement, one Do per step
HttpPost(o) ==
    /\ channel = "http" /\ pc = "write"
    /\ o \in HttpPostOutcomes
    /\ lastOutcome' = o
    /\ brokerAdvs' = IF o \in {"200", "201"} THEN ServerUpsert(outbound)
                     ELSE brokerAdvs
    /\ IF retryable(o) /\ ~lastAttempt(attempt)
       THEN /\ RetryWait(o)
            /\ UNCHANGED <<pc, result, acked>>
       ELSE /\ pc' = "done"
            /\ result' = IF o \in {"200", "201"} THEN "ok" ELSE o
            /\ acked' = IF o \in {"200", "201"} THEN acked + 1 ELSE acked
            /\ UNCHANGED <<attempt, slept, backoff, prevOutcome>>
    /\ UNCHANGED <<channel, brokerLast, brokerWrites, adv, existing, outbound,
                   lastErr, publishes>>
    /\ UNCHANGED <<acctVars, dlvVars, cycVars, tskVars>>

--------------------------------------------------------------------------
\* The reconciliation cycle calls PublishAdvertisement with fresh metrics;
\* lr is the Reserved total accounting computed locally
PublishStart(lr) ==
    /\ pc \in {"idle", "done"}
    /\ publishes < MaxPublishes
    /\ publishes' = publishes + 1
    /\ adv' = [metrics |-> publishes + 1, localReserved |-> lr]
    /\ pc' = "get"
    /\ attempt' = 1
    /\ backoff' = IF channel = "k8s" THEN Duration ELSE httpBackoff
    /\ slept' = 0
    /\ lastErr' = NoErr /\ prevOutcome' = None /\ lastOutcome' = None
    /\ result' = "pending"
    /\ acked' = 0
    /\ existing' = NoFetch /\ outbound' = NoMsg
    /\ UNCHANGED <<channel, brokerAdvs, brokerLast, brokerWrites>>
    /\ UNCHANGED <<acctVars, dlvVars, cycVars, tskVars>>

\* The broker locks or releases resources: it rewrites the Reserved field
\* of this cluster's advertisement record
BrokerSetReserved(v) ==
    /\ brokerWrites < MaxBrokerWrites
    /\ \E r \in RecordsOf(ClusterID) :
          brokerAdvs' = (brokerAdvs \ {r}) \cup
                        {[r EXCEPT !.reserved = v, !.rv = r.rv + 1]}
    /\ brokerLast' = v
    /\ brokerWrites' = brokerWrites + 1
    /\ UNCHANGED <<channel, pc, adv, attempt, existing, outbound, lastErr,
                   prevOutcome, lastOutcome, result, backoff, slept, acked,
                   publishes>>
    /\ UNCHANGED <<acctVars, dlvVars, cycVars, tskVars>>

--------------------------------------------------------------------------
\* Reservation delivery: values

ThirdCluster == "cluster-c"

\* names are strings, given as the pieces they are put together from
RsvIdSeq == << <<"r1">>, <<"r1", "-provider">> >>
RsvIds == {RsvIdSeq[i] : i \in 1..Len(RsvIdSeq)}

\* a reservation of the broker: spec.requesterID, spec.targetClusterID,
\* spec.requestedResources, status.phase, status.expiresAt (whole seconds)
Rsv(ph, req, tgt, c, ex) ==
    [phase |-> ph, requester |-> req, target |-> tgt, cpu |-> c,
     memory |-> "1Gi", expiresAt |-> ex]
NoRsv == Rsv("absent", "", "", "", {})

NoEvent == [type |-> "none", id |-> <<>>, rsv |-> NoRsv]
NoCall == [handler |-> "none", ev |-> NoEvent, calls |-> {}]

InitDlvIdle ==
    /\ strategy = "watch"
    /\ reservations = [id \in RsvIds |-> NoRsv]
    /\ events = <<>>
    /\ instr = {}
    /\ instrB = {}
    /\ lastCall = NoCall
    /\ clock = 0
    /\ steps = [changes |-> 0, faults |-> 0, redeliveries |-> 0]

\* ---- start-up and tasks: values before main has run ----
NoFlags == [clusterID |-> "", transport |-> "", kubeconfig |-> "", url |-> "",
            cert |-> ""]
NoWiring == [state |-> "unset", client |-> "nil", comm |-> "nil",
             watcher |-> FALSE, poller |-> FALSE]
NoStatus == [phase |-> "", published |-> FALSE, message |-> ""]
NoReturn == [requeue |-> 0, err |-> "unset"]

InitCycIdle ==
    /\ flags = NoFlags
    /\ wiring = NoWiring
    /\ collector = [ClusterIDOverride |-> ClusterID]
    /\ kubeSystem = [err |-> NoErr, uid |-> "uid-1"]
    /\ localAdv = [spec |-> [clusterID |-> ClusterID, resources |-> None,
                             timestamp |-> 0],
                   status |-> NoStatus]
    /\ reconcile = [state |-> "none"]
    /\ sent = <<>>
    /\ returned = NoReturn
    /\ cycles = 0

InitTskIdle ==
    /\ signal = FALSE
    /\ wpc = "off"
    /\ wBackoff = 0
    /\ failureCount = 0
    /\ wSlept = 0
    /\ ppc = [state |-> "off", interval |-> 0]
    /\ fetchLog = <<>>
    /\ ticks = 0

InitPubIdle ==
    /\ brokerAdvs = {}
    /\ brokerLast = None
    /\ brokerWrites = 0
    /\ pc = "idle"
    /\ adv = NoAdv
    /\ attempt = 0
    /\ existing = NoFetch
    /\ outbound = NoMsg
    /\ lastErr = NoErr /\ prevOutcome = None /\ lastOutcome = None
    /\ result = "pending"
    /\ backoff = 0 /\ slept = 0
    /\ acked = 0
    /\ publishes = 0

InitPub ==
    /\ channel \in {"k8s", "http"}
    /\ InitPubIdle
    /\ InitCycIdle
    /\ InitTskIdle
    /\ nodes = <<>> /\ pods = <<>> /\ holds = <<>> /\ now = 0
    /\ acct = [state |-> "none"]
    /\ cycle = "none"
    /\ InitDlvIdle

NextPub ==
    \/ \E lr \in ReservedValues \cup {None} : PublishStart(lr)
    \/ \E o \in K8sFaults \cup {NoErr, "NotFound"} : K8sGet(o)
    \/ \E f \in K8sFaults \cup {"natural"} : K8sWrite(f)
    \/ \E o \in HttpFaultStatus \cup HttpTransportErrs \cup {"200", "404", Garbled} :
          HttpGet(o)
    \/ \E o \in HttpFaultStatus \cup HttpTransportErrs \cup {"200", "201"} :
          HttpPost(o)
    \/ \E v \in ReservedValues : BrokerSetReserved(v)

Init == InitPub
Next == NextPub
Spec == Init /\ [][Next]_vars

--------------------------------------------------------------------------
\* Metrics Collector (internal/metrics/collector.go).  Quantities are
\* integers in the smallest unit (milli); a ResourceList is a function from
\* the resource names it holds to quantities.

\* ResourceQuantities: CPU, Memory and the optional GPU pointer
RQ(c, m, g, hg) == [cpu |-> c, memory |-> m, gpu |-> g, hasGPU |-> hg]
ZeroRQ == RQ(0, 0, 0, FALSE)

\* value, ok := list[name]
Has(rl, k) == k \in DOMAIN rl
Get(rl, k) == IF k \in DOMAIN rl THEN rl[k] ELSE 0

\* resource.ParseQuantity on a string given as its characters: an optional
\* sign, digits, and a suffix ("" units, "m" milli, "k" kilo)
DigitChars == <<"0", "1", "2", "3", "4", "5", "6", "7", "8", "9">>
IsDigit(c) == \E i \in 1..Len(DigitChars) : DigitChars[i] = c
DigitVal(c) == (CHOOSE i \in 1..Len(DigitChars) : DigitChars[i] = c) - 1

RECURSIVE DigitsEnd(_, _)
DigitsEnd(s, i) ==
    IF i <= Len(s) /\ IsDigit(s[i]) THEN DigitsEnd(s, i + 1) ELSE i

RECURSIVE DigitsValue(_, _, _, _)
DigitsValue(s, i, stop, acc) ==
    IF i >= stop THEN acc
    ELSE DigitsValue(s, i + 1, stop, acc * 10 + DigitVal(s[i]))

ParseQuantity(s) ==
    LET signed == Len(s) >= 1 /\ s[1] \in {"-", "+"}
        start == IF signed THEN 2 ELSE 1
        stop == DigitsEnd(s, start)
        suffix == SubSeq(s, stop, Len(s))
        scale == IF suffix = <<>> THEN 1000
                 ELSE IF suffix = <<"m">> THEN 1
                 ELSE IF suffix = <<"k">> THEN 1000000
                 ELSE 0
        sign == IF signed /\ s[1] = "-" THEN 0 - 1 ELSE 1
    IN IF stop = start \/ scale = 0
       THEN [ok |-> FALSE, val |-> 0]
       ELSE [ok |-> TRUE, val |-> sign * DigitsValue(s, start, stop, 0) * scale]

\* isNodeReady: the status of the first Ready condition
RECURSIVE readyFrom(_, _)
readyFrom(conds, i) ==
    IF i > Len(conds) THEN FALSE
    ELSE IF conds[i].type = "Ready" THEN conds[i].status = "True"
    ELSE readyFrom(conds, i + 1)

\* mutant: every node is taken as ready
isNodeReadyAny(node) == TRUE

isNodeReady(node) == readyFrom(node.conditions, 1)

\* the node loop of CollectClusterResources
nodeStep(acc, node) ==
    IF ~isNodeReady(node) THEN acc
    ELSE [capacity |->
            RQ(acc.capacity.cpu + Get(node.capacity, "cpu"),
               acc.capacity.memory + Get(node.capacity, "memory"),
               acc.capacity.gpu + Get(node.capacity, "gpu"), FALSE),
          allocatable |->
            RQ(acc.allocatable.cpu + Get(node.allocatable, "cpu"),
               acc.allocatable.memory + Get(node.allocatable, "memory"),
               acc.allocatable.gpu + Get(node.allocatable, "gpu"), FALSE),
          hasGPU |-> acc.hasGPU \/ Has(node.capacity, "gpu")]

RECURSIVE nodeLoop(_, _, _)
nodeLoop(ns, i, acc) ==
    IF i > Len(ns) THEN acc ELSE nodeLoop(ns, i + 1, nodeStep(acc, ns[i]))

\* the loop over pod.Spec.Containers: requests are added up
RECURSIVE sumRequests(_, _, _)
sumRequests(cs, i, k) ==
    IF i > Len(cs) THEN 0 ELSE Get(cs[i], k) + sumRequests(cs, i + 1, k)

\* the loop over pod.Spec.InitContainers: the largest request, from 0
RECURSIVE maxRequest(_, _, _, _)
maxRequest(cs, i, k, m) ==
    IF i > Len(cs) THEN m
    ELSE maxRequest(cs, i + 1, k,
                    IF Has(cs[i], k) /\ cs[i][k] > m THEN cs[i][k] ELSE m)

requestsGPU(cs) == \E i \in 1..Len(cs) : Has(cs[i], "gpu")

\* mutant: containers and init containers added up
contributionSum(pod, k) ==
    sumRequests(pod.containers, 1, k) + maxRequest(pod.initContainers, 1, k, 0)

\* cpuContribution / memoryContribution / gpuContribution of a pod
contribution(pod, k) ==
    LET c == sumRequests(pod.containers, 1, k)
        m == maxRequest(pod.initContainers, 1, k, 0)
    IN IF m > c THEN m ELSE c

\* mutant: every phase is counted
countedPhaseAny(pod) == TRUE

\* pod.Status.Phase is PodRunning or PodPending
countedPhase(pod) == pod.phase \in {"Running", "Pending"}

\* mutant: the GPU flag is read as it stood before this pod's containers
podStepFlagBefore(acc, pod) ==
    IF ~countedPhase(pod) THEN acc
    ELSE LET hg == acc.hasGPU \/ requestsGPU(pod.containers)
                              \/ requestsGPU(pod.initContainers)
             g == IF acc.hasGPU THEN acc.gpu + contribution(pod, "gpu")
                  ELSE acc.gpu
         IN RQ(acc.cpu + contribution(pod, "cpu") + Get(pod.overhead, "cpu"),
               acc.memory + contribution(pod, "memory")
                          + Get(pod.overhead, "memory"),
               g + Get(pod.overhead, "gpu"),
               hg \/ Has(pod.overhead, "gpu"))

\* one iteration of the pod loop of calculateAllocatedResources
podStep(acc, pod) ==
    IF ~countedPhase(pod) THEN acc
    ELSE LET hg == acc.hasGPU \/ requestsGPU(pod.containers)
                              \/ requestsGPU(pod.initContainers)
             g == IF hg THEN acc.gpu + contribution(pod, "gpu") ELSE acc.gpu
         IN RQ(acc.cpu + contribution(pod, "cpu") + Get(pod.overhead, "cpu"),
               acc.memory + contribution(pod, "memory")
                          + Get(pod.overhead, "memory"),
               g + Get(pod.overhead, "gpu"),
               hg \/ Has(pod.overhead, "gpu"))

RECURSIVE podLoop(_, _, _)
podLoop(ps, i, acc) ==
    IF i > Len(ps) THEN acc ELSE podLoop(ps, i + 1, podStep(acc, ps[i]))

calculateAllocatedResources(ps) == podLoop(ps, 1, ZeroRQ)

\* instruction.Spec.ExpiresAt != nil && ExpiresAt.Time.Before(now)
expired(h, t) == \E e \in h.expiresAt : e < t

\* one iteration of the loop of calculateReservedResources
holdStep(acc, h, t) ==
    IF ~h.enforced THEN acc
    ELSE IF expired(h, t) THEN acc
    ELSE LET c == ParseQuantity(h.requestedCPU)
             m == ParseQuantity(h.requestedMemory)
         IN IF h.requestedCPU # <<>> /\ ~c.ok THEN acc
            ELSE LET acc1 == [acc EXCEPT !.cpu =
                                 @ + IF h.requestedCPU # <<>> THEN c.val ELSE 0]
                 IN IF h.requestedMemory # <<>> /\ ~m.ok THEN acc1
                    ELSE [acc1 EXCEPT !.memory =
                             @ + IF h.requestedMemory # <<>> THEN m.val ELSE 0]

RECURSIVE holdLoop(_, _, _, _)
holdLoop(hs, i, t, acc) ==
    IF i > Len(hs) THEN acc ELSE holdLoop(hs, i + 1, t, holdStep(acc, hs[i], t))

calculateReservedResources(hs, t) == holdLoop(hs, 1, t, ZeroRQ)

\* available = allocatable - allocated - reserved, GPU when tracked
availableOf(allocatable, allocated, reserved, hasGPU) ==
    RQ(allocatable.cpu - allocated.cpu - reserved.cpu,
       allocatable.memory - allocated.memory - reserved.memory,
       IF hasGPU
       THEN allocatable.gpu - (IF allocated.hasGPU THEN allocated.gpu ELSE 0)
                            - (IF reserved.hasGPU THEN reserved.gpu ELSE 0)
       ELSE 0,
       hasGPU)

CollectClusterResources(ns, ps, hs, t) ==
    IF Len(ns) = 0
    THEN [state |-> "error", err |-> "no nodes found in cluster"]
    ELSE LET n == nodeLoop(ns, 1, [capacity |-> ZeroRQ, allocatable |-> ZeroRQ,
                                   hasGPU |-> FALSE])
             capacity == [n.capacity EXCEPT !.hasGPU = n.hasGPU,
                             !.gpu = IF n.hasGPU THEN @ ELSE 0]
             allocatable == [n.allocatable EXCEPT !.hasGPU = n.hasGPU,
                                !.gpu = IF n.hasGPU THEN @ ELSE 0]
             allocated == calculateAllocatedResources(ps)
             reserved == calculateReservedResources(hs, t)
         IN [state |-> "ok",
             capacity |-> capacity,
             allocatable |-> allocatable,
             allocated |-> [allocated EXCEPT
                               !.gpu = IF allocated.hasGPU THEN @ ELSE 0],
             reserved |-> reserved,
             available |-> availableOf(n.allocatable, allocated, reserved,
                                       n.hasGPU)]

\* the error of a failed List call, by the list that failed
ListErrors == {"failed to list nodes",
               "failed to calculate allocated resources",
               "failed to calculate reserved resources"}

\* Reconcile after CollectClusterResources: an error ends the cycle with
\* updateStatus("Error"), before the spec update and the publish call
afterCollect(m) == IF m.state = "error" THEN "status-error" ELSE "publish"

\* one collection: the three lists are read and the snapshot computed; a
\* List call that fails ends the collection with its error
Collect(f) ==
    /\ acct.state = "none"
    /\ acct' = IF f \in ListErrors
               THEN [state |-> "error", err |-> f]
               ELSE CollectClusterResources(nodes, pods, holds, now)
    /\ cycle' = afterCollect(acct')
    /\ UNCHANGED <<nodes, pods, holds, now>>
    /\ UNCHANGED <<pubVars, dlvVars, cycVars, tskVars>>

\* Bounds of the collector's inputs
MaxNodes == 2
MaxPods == 2
MaxHolds == 2
MaxContainers == 2
MaxTime == 2

SeqUpTo(S, n) == UNION {[1..m -> S] : m \in 0..n}

\* resource lists of the inputs
EmptyRL == <<>>
PlainCapacity == ("cpu" :> 4000) @@ ("memory" :> 8192)
PlainAllocatable == ("cpu" :> 3500) @@ ("memory" :> 8000)
GpuCapacity == ("cpu" :> 2000) @@ ("memory" :> 4096) @@ ("gpu" :> 1000)
AppRequests == ("cpu" :> 500) @@ ("memory" :> 256)
GpuRequests == ("cpu" :> 250) @@ ("gpu" :> 1000)
InitRequests == ("cpu" :> 2000) @@ ("memory" :> 1024)
RuntimeOverhead == ("cpu" :> 250) @@ ("memory" :> 128)

Condition(t, st) == [type |-> t, status |-> st]
ConditionLists ==
    {<<>>,
     <<Condition("Ready", "True")>>,
     <<Condition("Ready", "False")>>,
     <<Condition("Ready", "Unknown")>>,
     <<Condition("MemoryPressure", "False"), Condition("Ready", "True")>>}

Node(conds, cap, alloc) ==
    [conditions |-> conds, capacity |-> cap, allocatable |-> alloc]
NodeSet ==
    {Node(c, PlainCapacity, PlainAllocatable) : c \in ConditionLists}
    \cup {Node(c, GpuCapacity, GpuCapacity) : c \in ConditionLists}
ReadyPlain == Node(<<Condition("Ready", "True")>>, PlainCapacity, PlainAllocatable)
ReadyGpu == Node(<<Condition("Ready", "True")>>, GpuCapacity, GpuCapacity)
BaseNodeLists ==
    {<<ReadyPlain>>,
     <<ReadyGpu, Node(<<Condition("Ready", "False")>>, PlainCapacity,
                      PlainAllocatable)>>}

Phases == {"Pending", "Running", "Succeeded", "Failed", "Unknown"}
Pod(ph, cs, ics, ov) ==
    [phase |-> ph, containers |-> cs, initContainers |-> ics, overhead |-> ov]
PodSet ==
    {Pod(ph, <<AppRequests>>, <<>>, EmptyRL) : ph \in Phases}
    \cup {Pod(ph, <<GpuRequests>>, <<InitRequests>>, RuntimeOverhead) :
            ph \in Phases}
\* one pod of any shape
ShapedPods ==
    {Pod("Running", cs, ics, ov) :
        cs \in SeqUpTo({AppRequests, GpuRequests}, MaxContainers),
        ics \in SeqUpTo({InitRequests, GpuRequests}, MaxContainers),
        ov \in {EmptyRL, RuntimeOverhead}}
BasePodLists ==
    {<<>>, <<Pod("Running", <<AppRequests>>, <<>>, EmptyRL)>>}

NoExpiry == {}
Hold(en, ex, c, m) ==
    [enforced |-> en, expiresAt |-> ex, requestedCPU |-> c,
     requestedMemory |-> m]
Expiries == {NoExpiry} \cup {{t} : t \in 0..MaxTime}
\* amount strings, as their characters
CpuAmounts == {<<>>, <<"2">>, <<"5", "0", "0", "m">>, <<"-", "1">>, <<"x">>}
MemoryAmounts == {<<>>, <<"1">>, <<"1", "k">>, <<"1", "G", "i", "B">>}
HoldSet ==
    {Hold(en, ex, c, <<"1">>) :
        en \in BOOLEAN, ex \in Expiries, c \in {<<"2">>, <<"5", "0", "0", "m">>}}
    \cup {Hold(TRUE, NoExpiry, c, m) : c \in CpuAmounts, m \in MemoryAmounts}
BaseHoldLists == {<<>>, <<Hold(TRUE, NoExpiry, <<"2">>, <<"1">>)>>}

\* the store at the time of a collection: any nodes, any pods or any
\* provider instructions, the other two lists from the base lists
InitAcct ==
    /\ channel = "k8s"
    /\ InitPubIdle
    /\ InitCycIdle
    /\ InitTskIdle
    /\ acct = [state |-> "none"]
    /\ cycle = "none"
    /\ InitDlvIdle
    /\ \/ /\ nodes \in SeqUpTo(NodeSet, MaxNodes)
          /\ pods \in BasePodLists
          /\ holds \in BaseHoldLists
          /\ now = 1
       \/ /\ nodes \in BaseNodeLists
          /\ pods \in SeqUpTo(PodSet, MaxPods)
                      \cup {<<p>> : p \in ShapedPods}
          /\ holds \in BaseHoldLists
          /\ now = 1
       \/ /\ nodes = <<ReadyPlain>>
          /\ pods \in BasePodLists
          /\ holds \in SeqUpTo(HoldSet, MaxHolds)
          /\ now \in 1..MaxTime

\* stores whose three lists all vary, drawn from a few items each
OrderNodes ==
    {ReadyPlain, ReadyGpu,
     Node(<<Condition("Ready", "False")>>, PlainCapacity, PlainAllocatable)}
OrderPods ==
    {Pod("Running", <<AppRequests>>, <<>>, EmptyRL),
     Pod("Pending", <<GpuRequests>>, <<InitRequests>>, RuntimeOverhead),
     Pod("Running", <<GpuRequests, GpuRequests>>, <<>>, EmptyRL)}
OrderHolds ==
    {Hold(TRUE, NoExpiry, <<"2">>, <<"1">>),
     Hold(TRUE, NoExpiry, <<"x">>, <<"1">>),
     Hold(TRUE, {0}, <<"5", "0", "0", "m">>, <<"1">>)}

InitOrder ==
    /\ channel = "k8s"
    /\ InitPubIdle
    /\ InitCycIdle
    /\ InitTskIdle
    /\ acct = [state |-> "none"]
    /\ cycle = "none"
    /\ InitDlvIdle
    /\ nodes \in SeqUpTo(OrderNodes, MaxNodes)
    /\ pods \in SeqUpTo(OrderPods, MaxPods)
    /\ holds \in SeqUpTo(OrderHolds, MaxHolds)
    /\ now = 1

NextAcct == \E f \in {"none"} \cup ListErrors : Collect(f)

SpecAcct == InitAcct /\ [][NextAcct]_vars

SpecOrder == InitOrder /\ [][NextAcct]_vars

--------------------------------------------------------------------------
\* Claims about the advertisement publisher

\* C1: under every interleaving of a publish with broker-side changes of
\* Reserved, on both channels, the broker record's Reserved is the value
\* the broker last wrote: no agent write removes or replaces it.
C1_ReservedNeverClobbered ==
    \A r \in RecordsOf(ClusterID) : r.reserved = brokerLast

\* C2: when the fetch succeeded and the fetched record carries a Reserved
\* figure, the outbound message of that attempt carries exactly that
\* figure, whatever Reserved total was computed locally.
C2_FetchedReservedCarried ==
    (pc = "write" /\ existing.err = NoErr /\ existing.reserved # None)
        => outbound.reserved = existing.reserved

C2_Witness ==
    /\ pc = "write" /\ existing.err = NoErr
    /\ existing.reserved = "r1" /\ adv.localReserved = "r2"
    /\ outbound.reserved = "r1"

\* C3: when the fetch failed or found no record, the publish goes on to its
\* write as a first publish (a Create in the record-store channel) and the
\* outbound message carries no Reserved field.
C3_FirstPublishOmitsReserved ==
    [][/\ (pc = "get" => pc' \in {"get", "write"})
       /\ (pc' = "write" /\ existing'.err # NoErr)
             => /\ outbound'.reserved = None
                /\ channel = "k8s" => writeOp(existing') = "Create"]_vars

C3_Witness ==
    /\ pc = "write" /\ existing.err \notin {NoErr, "NotFound", "404"}
    /\ RecordsOf(ClusterID) # {} /\ brokerLast # None
    /\ adv.localReserved # None
    /\ outbound.reserved = None

\* C4: in the record-store channel a version conflict is transient: the
\* Publish call does not end on a conflict while attempts remain (it reads
\* again and retries), and every Update carries the last-seen version token.
C4_ConflictRetried ==
    /\ ~(channel = "k8s" /\ pc = "done" /\ lastOutcome = "Conflict"
         /\ attempt < Steps)
    /\ (channel = "k8s" /\ pc = "write" /\ writeOp(existing) = "Update")
          => outbound.rv = existing.rv /\ outbound.rv # 0

\* the failures the specification classifies as transient
TransientClass ==
    {"Timeout", "ServerTimeout", "ServiceUnavailable", "TooManyRequests",
     "InternalError", "NetTimeout", "429", "500", "503"}

\* C5: a further attempt starts only after a failure classified as transient
\* (timeout, unavailable, rate-limited, 5xx); at most 4 attempts are made
\* per call (record store) or per request (HTTP); a non-transient failure
\* (bad request, authentication failure, 4xx) ends the retry loop at once.
C5_RetryOnlyAfterTransient ==
    /\ attempt <= Steps /\ attempt <= maxRetries + 1
    /\ attempt > 1 => prevOutcome \in TransientClass
    /\ attempt > 1 => slept <= maxBackoff

\* C6: a call whose last attempt succeeds returns success with exactly one
\* acknowledged write, also after transient failures, and the broker never
\* holds more than one advertisement record for this cluster; after a
\* success it holds exactly one, named "<clusterID>-adv".
C6_OneDeliveryOneRecord ==
    /\ Cardinality(RecordsOf(ClusterID)) <= 1
    /\ acked <= 1
    /\ (pc = "done" /\ lastOutcome \in {NoErr, "200", "201"})
          => result = "ok" /\ acked = 1
    /\ (pc = "done" /\ result = "ok")
          => \E r \in brokerAdvs :
                /\ RecordsOf(ClusterID) = {r}
                /\ r.name = AdvName(ClusterID)
                /\ r.metrics = adv.metrics

C6_Witness ==
    /\ channel = "k8s" /\ pc = "done" /\ result = "ok"
    /\ attempt > 1 /\ lastErr # NoErr
    /\ publishes = 2
    /\ Cardinality(RecordsOf(ClusterID)) = 1

--------------------------------------------------------------------------
\* Claims about the metrics collector

Max(a, b) == IF a >= b THEN a ELSE b

RECURSIVE SumOver(_, _)
SumOver(f, S) ==
    IF S = {} THEN 0
    ELSE LET x == CHOOSE y \in S : TRUE IN f[x] + SumOver(f, S \ {x})

\* the resource kinds of a snapshot: GPU when the snapshot tracks it
TrackedKinds(m) ==
    {"cpu", "memory"} \cup (IF m.available.hasGPU THEN {"gpu"} ELSE {})

\* C7: for every tracked resource kind the Available figure of a snapshot
\* equals max(Allocatable - Allocated - Reserved, 0), so it is never negative
C7_AvailableClamped ==
    acct.state = "ok" =>
        \A k \in TrackedKinds(acct) :
            acct.available[k] =
                Max(acct.allocatable[k] - acct.allocated[k] - acct.reserved[k], 0)

\* C8: in every snapshot, for every tracked resource kind, Available is at
\* most Allocatable and the Allocated and Reserved totals are not negative
C8_SnapshotBounds ==
    acct.state = "ok" =>
        \A k \in TrackedKinds(acct) :
            /\ acct.available[k] <= acct.allocatable[k]
            /\ acct.allocated[k] >= 0
            /\ acct.reserved[k] >= 0

\* the amount an amount string asks for
Amount(s) == IF s = <<>> THEN 0 ELSE ParseQuantity(s).val
WellFormed(h) ==
    /\ h.requestedCPU = <<>> \/ ParseQuantity(h.requestedCPU).ok
    /\ h.requestedMemory = <<>> \/ ParseQuantity(h.requestedMemory).ok

\* enforced, and the expiry absent or in the future at time t
LiveHold(h, t) ==
    h.enforced /\ (h.expiresAt = NoExpiry \/ \E e \in h.expiresAt : e > t)

\* C9: the Reserved total is the sum of the requested amounts of exactly the
\* instructions that are enforced and whose expiry is absent or in the
\* future at computation time; every other instruction contributes 0
C9_ReservedIsSumOfLiveHolds ==
    (acct.state = "ok" /\ \A i \in 1..Len(holds) : WellFormed(holds[i])) =>
        /\ acct.reserved.cpu =
              SumOver([i \in 1..Len(holds) |->
                          IF LiveHold(holds[i], now)
                          THEN Amount(holds[i].requestedCPU) ELSE 0],
                      1..Len(holds))
        /\ acct.reserved.memory =
              SumOver([i \in 1..Len(holds) |->
                          IF LiveHold(holds[i], now)
                          THEN Amount(holds[i].requestedMemory) ELSE 0],
                      1..Len(holds))

\* what the claim expects of one workload for one resource kind
ConcurrentSum(pod, k) ==
    SumOver([i \in 1..Len(pod.containers) |-> Get(pod.containers[i], k)],
            1..Len(pod.containers))
LargestInit(pod, k) ==
    CHOOSE m \in {0} \cup {Get(pod.initContainers[i], k) :
                              i \in 1..Len(pod.initContainers)} :
        \A i \in 1..Len(pod.initContainers) : Get(pod.initContainers[i], k) <= m
ExpectedContribution(pod, k) ==
    Max(ConcurrentSum(pod, k), LargestInit(pod, k)) + Get(pod.overhead, k)

\* C10: every counted workload contributes to Allocated, per resource kind,
\* max(sum of its containers' requests, largest init-container request) plus
\* its overhead, and Allocated is the total of these contributions
C10_WorkloadContribution ==
    acct.state = "ok" =>
        \A k \in {"cpu", "memory", "gpu"} :
            acct.allocated[k] =
                SumOver([i \in 1..Len(pods) |->
                            IF pods[i].phase \in {"Running", "Pending"}
                            THEN ExpectedContribution(pods[i], k) ELSE 0],
                        1..Len(pods))

\* a collection over one workload with containers asking 0.5 CPU in total,
\* an init container asking 2 CPU and 0.25 CPU of overhead: 2.25 CPU
C10_Witness ==
    /\ acct.state = "ok"
    /\ Len(pods) = 1
    /\ pods[1].phase = "Running"
    /\ ConcurrentSum(pods[1], "cpu") = 500
    /\ LargestInit(pods[1], "cpu") = 2000
    /\ Get(pods[1].overhead, "cpu") = 250
    /\ acct.allocated.cpu = 2250

\* a workload in phase Running or Pending
ActivePhase(pod) == pod.phase \in {"Running", "Pending"}
ActiveTotal(k) ==
    SumOver([i \in 1..Len(pods) |->
                IF ActivePhase(pods[i])
                THEN ExpectedContribution(pods[i], k) ELSE 0],
            1..Len(pods))

\* C11: only workloads in phase Running or Pending contribute to Allocated:
\* dropping every workload in another phase leaves Allocated unchanged, and
\* a store with no Running or Pending workload has Allocated zero
C11_OnlyActivePhasesCount ==
    acct.state = "ok" =>
        LET active == calculateAllocatedResources(SelectSeq(pods, ActivePhase))
        IN /\ \A k \in {"cpu", "memory", "gpu"} : acct.allocated[k] = active[k]
           /\ acct.allocated.hasGPU = active.hasGPU
           /\ (\A i \in 1..Len(pods) : ~ActivePhase(pods[i])) =>
                 /\ \A k \in {"cpu", "memory", "gpu"} : acct.allocated[k] = 0
                 /\ ~acct.allocated.hasGPU

\* a collection over a finished workload with requests next to a running one
C11_Witness ==
    /\ acct.state = "ok"
    /\ \E i, j \in 1..Len(pods) :
          /\ pods[i].phase \in {"Succeeded", "Failed", "Unknown"}
          /\ ExpectedContribution(pods[i], "cpu") > 0
          /\ pods[j].phase = "Running"
          /\ acct.allocated.cpu = ExpectedContribution(pods[j], "cpu")

\* a host whose Ready condition is true
ReadyTrue(node) ==
    \E i \in 1..Len(node.conditions) :
        node.conditions[i].type = "Ready" /\ node.conditions[i].status = "True"

\* C12: Capacity and Allocatable are the sums over exactly the hosts whose
\* Ready condition is true; a host whose Ready condition is false, unknown or
\* missing contributes nothing
C12_OnlyReadyHostsCount ==
    acct.state = "ok" =>
        \A k \in {"cpu", "memory", "gpu"} :
            /\ acct.capacity[k] =
                  SumOver([i \in 1..Len(nodes) |->
                              IF ReadyTrue(nodes[i])
                              THEN Get(nodes[i].capacity, k) ELSE 0],
                          1..Len(nodes))
            /\ acct.allocatable[k] =
                  SumOver([i \in 1..Len(nodes) |->
                              IF ReadyTrue(nodes[i])
                              THEN Get(nodes[i].allocatable, k) ELSE 0],
                          1..Len(nodes))

\* a collection over a ready host next to one that is not ready
C12_Witness ==
    /\ acct.state = "ok"
    /\ \E i, j \in 1..Len(nodes) :
          /\ ReadyTrue(nodes[i])
          /\ ~ReadyTrue(nodes[j])
          /\ Get(nodes[j].capacity, "cpu") > 0
          /\ acct.capacity.cpu = Get(nodes[i].capacity, "cpu")
          /\ acct.allocatable.cpu = Get(nodes[i].allocatable, "cpu")

\* C13: when the host inventory holds no ready host (it is empty or holds
\* only hosts that are not ready) the collection fails with the no-capacity
\* error and the reconciliation cycle does not reach the publish call
C13_NoReadyHostFails ==
    (acct.state # "none" /\ \A i \in 1..Len(nodes) : ~ReadyTrue(nodes[i])) =>
        /\ acct.state = "error"
        /\ cycle # "publish"

\* the lists holding the items of s in any order
Reorderings(s) ==
    {[i \in 1..Len(s) |-> s[f[i]]] :
        f \in {g \in [1..Len(s) -> 1..Len(s)] :
                  \A i, j \in 1..Len(s) : g[i] = g[j] => i = j}}

--------------------------------------------------------------------------
\* Reservation delivery: ReservationWatcher (watch strategy) and
\* ReservationPoller (poll strategy) write instruction records to the local
\* store; the instruction reconcilers set their status

\* Bounds of the delivery model
\* the latest time of the delivery clock
MaxClock == 1
\* broker changes, watch reconnects and failed calls in one behaviour
MaxDeliverySteps == 2

ReqKind == "ReservationInstruction"
ProvKind == "ProviderInstruction"

\* the states a reservation of the broker is seen in
RsvStates ==
    {Rsv("Reserved", ClusterID, OtherCluster, "1", {}),
     Rsv("Reserved", ClusterID, OtherCluster, "2", {0}),
     Rsv("Reserved", OtherCluster, ClusterID, "1", {}),
     Rsv("Reserved", OtherCluster, ClusterID, "1", {0}),
     Rsv("Reserved", ClusterID, ClusterID, "1", {}),
     Rsv("Pending", ClusterID, OtherCluster, "1", {}),
     Rsv("Released", OtherCluster, ClusterID, "1", {}),
     Rsv("Reserved", OtherCluster, ThirdCluster, "1", {})}

\* the states the reservation named id is seen in: all of them for the
\* first name, the provider-side ones for the name ending in "-provider"
RsvStatesOf(id) ==
    IF id = RsvIdSeq[1] THEN RsvStates
    ELSE {Rsv("Reserved", OtherCluster, ClusterID, "1", {}),
          Rsv("Reserved", ClusterID, ClusterID, "1", {})}

\* where a call to the local store can fail
StoreFaults == {"get", "write", "status"}

\* the record of kind k named n in store S
Named(S, k, n) == {r \in S : r.kind = k /\ r.name = n}

\* mutant: a requester-side name that follows the target cluster
requesterNamePerTarget(id, r) == id \o <<"-", r.target>>

\* name := reservation.GetName()
requesterName(id, r) == id

\* mutant: the provider-side record named like the requester-side one
providerNameBare(id, r) == id

\* name := fmt.Sprintf("%s-provider", reservation.GetName())
providerName(id, r) == id \o <<"-provider">>

\* an instruction record: kind, name, Spec and the Delivered/Enforced flag
Instruction(k, n, id, peer, r, fl) ==
    [kind |-> k, name |-> n, reservationName |-> id, peer |-> peer,
     cpu |-> r.cpu, memory |-> r.memory, expiresAt |-> r.expiresAt,
     flag |-> fl]

\* mutant: the status of a rewritten record is left as it was
statusAfterKept(old) == old

\* instruction.Status.Delivered = false / Status.Enforced = false
statusAfter(old) == FALSE

\* the body shared by upsertRequesterInstruction and
\* upsertProviderInstruction: Get, then Create or Update of the Spec, then
\* Status().Update; f is the call that fails, if any
upsert(S, k, n, id, peer, r, f) ==
    LET cur == Named(S, k, n)
        old == CHOOSE x \in cur : TRUE
        before == IF cur = {} THEN FALSE ELSE old.flag
    IN IF f = "get" THEN [store |-> S, err |-> "get"]
       ELSE IF f = "write" THEN [store |-> S, err |-> "write"]
       ELSE IF f = "status"
       THEN [store |-> (S \ cur) \cup {Instruction(k, n, id, peer, r, before)},
             err |-> "status"]
       ELSE [store |-> (S \ cur)
                       \cup {Instruction(k, n, id, peer, r, statusAfter(before))},
             err |-> NoErr]

upsertRequesterInstruction(S, id, r, f) ==
    upsert(S, ReqKind, requesterName(id, r), id, r.target, r, f)

upsertProviderInstruction(S, id, r, f) ==
    upsert(S, ProvKind, providerName(id, r), id, r.requester, r, f)

\* the flag of the record of kind k named n: "absent" when there is none
flagOf(S, k, n) ==
    IF Named(S, k, n) = {} THEN "absent"
    ELSE IF \E x \in Named(S, k, n) : x.flag THEN "true" ELSE "false"

\* the call a handler made: which upsert, for which reservation in which
\* state, the flag of the record before the call, and the error returned
Call(fn, id, r, was, e) ==
    [fn |-> fn, id |-> id, rsv |-> r, was |-> was, err |-> e]

\* mutant: the phase of the reservation is not looked at
reactsToAnyPhase(r) ==
    r.requester = ClusterID \/ r.target = ClusterID

\* the filter of the watch loop: this cluster is requester or target, and
\* the phase is Reserved
reactsTo(r) ==
    /\ r.requester = ClusterID \/ r.target = ClusterID
    /\ r.phase = "Reserved"

\* one iteration of the watch loop of ReservationWatcher.Start over event
\* ev; fr and fp are the failing store calls of the two upserts
watchHandle(S, ev, fr, fp) ==
    IF ~reactsTo(ev.rsv) THEN [store |-> S, calls |-> {}]
    ELSE LET r == ev.rsv
             a == IF r.requester = ClusterID
                  THEN upsertRequesterInstruction(S, ev.id, r, fr)
                  ELSE [store |-> S, err |-> "skipped"]
             b == IF r.target = ClusterID
                  THEN upsertProviderInstruction(a.store, ev.id, r, fp)
                  ELSE [store |-> a.store, err |-> "skipped"]
         IN [store |-> b.store,
             calls |->
                {Call("requester", ev.id, r,
                      flagOf(S, ReqKind, requesterName(ev.id, r)), a.err) :
                    x \in IF r.requester = ClusterID THEN {1} ELSE {}}
                \cup
                {Call("provider", ev.id, r,
                      flagOf(a.store, ProvKind, providerName(ev.id, r)), b.err) :
                    x \in IF r.target = ClusterID THEN {1} ELSE {}}]

\* the body shared by createRequesterInstruction and
\* createProviderInstruction of the poller: Get; an existing record is left
\* as it is; otherwise Create
createInstruction(S, k, n, id, peer, r, f) ==
    LET cur == Named(S, k, n)
    IN IF f = "get" THEN [store |-> S, err |-> "get"]
       ELSE IF cur # {} THEN [store |-> S, err |-> NoErr]
       ELSE IF f = "write" THEN [store |-> S, err |-> "write"]
       ELSE [store |-> S \cup {Instruction(k, n, id, peer, r, FALSE)},
             err |-> NoErr]

createRequesterInstruction(S, id, r, f) ==
    createInstruction(S, ReqKind, requesterName(id, r), id, r.target, r, f)

createProviderInstruction(S, id, r, f) ==
    createInstruction(S, ProvKind, providerName(id, r), id, r.requester, r, f)

\* the broker's answer to FetchReservations(clusterID, role): the
\* reservations this cluster has that role in
hasRole(r, role) ==
    /\ r # NoRsv
    /\ IF role = "requester" THEN r.requester = ClusterID
       ELSE r.target = ClusterID

\* the reply of an honest broker to FetchReservations(clusterID, role):
\* of the reservations rs, those this cluster has that role in
fetchReservations(rs, role) ==
    [id \in DOMAIN rs |-> IF hasRole(rs[id], role) THEN rs[id] ELSE NoRsv]

\* a variant of the loop that returns at the first failed create call
RECURSIVE processFromStopping(_, _, _, _, _)
processFromStopping(S, reply, role, i, f) ==
    IF i > Len(RsvIdSeq) THEN [store |-> S, calls |-> {}]
    ELSE LET id == RsvIdSeq[i]
             r == reply[id]
         IN IF r = NoRsv \/ r.phase # "Reserved"
            THEN processFromStopping(S, reply, role, i + 1, f)
            ELSE LET a == IF role = "requester"
                          THEN createRequesterInstruction(S, id, r, f)
                          ELSE createProviderInstruction(S, id, r, f)
                     rest == IF a.err # NoErr
                             THEN [store |-> a.store, calls |-> {}]
                             ELSE processFromStopping(a.store, reply, role,
                                                      i + 1, f)
                 IN [store |-> rest.store,
                     calls |->
                        {Call(role, id, r,
                              IF role = "requester"
                              THEN flagOf(S, ReqKind, requesterName(id, r))
                              ELSE flagOf(S, ProvKind, providerName(id, r)),
                              a.err)} \cup rest.calls]

\* the loop of pollAndProcess for one role over the reply of the broker,
\* from the i-th id on; f is the failing store call of its create calls
RECURSIVE processFrom(_, _, _, _, _)
processFrom(S, reply, role, i, f) ==
    IF i > Len(RsvIdSeq) THEN [store |-> S, calls |-> {}]
    ELSE LET id == RsvIdSeq[i]
             r == reply[id]
         IN IF r = NoRsv \/ r.phase # "Reserved"
            THEN processFrom(S, reply, role, i + 1, f)
            ELSE LET a == IF role = "requester"
                          THEN createRequesterInstruction(S, id, r, f)
                          ELSE createProviderInstruction(S, id, r, f)
                     rest == processFrom(a.store, reply, role, i + 1, f)
                 IN [store |-> rest.store,
                     calls |->
                        {Call(role, id, r,
                              IF role = "requester"
                              THEN flagOf(S, ReqKind, requesterName(id, r))
                              ELSE flagOf(S, ProvKind, providerName(id, r)),
                              a.err)} \cup rest.calls]

\* pollAndProcess(role): a failed fetch processes nothing
pollAndProcess(S, rs, role, fetchFails, f) ==
    IF fetchFails THEN [store |-> S, calls |-> {}]
    ELSE processFrom(S, fetchReservations(rs, role), role, 1, f)

\* poll(): the requester role, then the provider role; ff names the roles
\* whose fetch fails
poll(S, rs, ff, fr, fp) ==
    LET a == pollAndProcess(S, rs, "requester", "requester" \in ff, fr)
        b == pollAndProcess(a.store, rs, "provider", "provider" \in ff, fp)
    IN [store |-> b.store, calls |-> a.calls \cup b.calls]

\* ReservationInstructionReconciler.Reconcile / ProviderInstruction-
\* Reconciler.Reconcile on record x at time t: an expired record is marked
\* not delivered / not enforced, any other one delivered / enforced
\* instruction.Spec.ExpiresAt != nil && ExpiresAt.Time.Before(time.Now())
pastExpiry(x, t) == \E e \in x.expiresAt : e < t

\* mutant: the expiry is not looked at
reconciledAnyTime(x, t) == [x EXCEPT !.flag = TRUE]

\* a variant of the reconcilers that never marks a record
reconciledUnmarked(x, t) == [x EXCEPT !.flag = FALSE]

reconciled(x, t) ==
    IF pastExpiry(x, t)
    THEN [x EXCEPT !.flag = FALSE]
    ELSE [x EXCEPT !.flag = TRUE]

\* mutant: an expired record is removed from the store
reconcileInPruning(S, k, n, t) ==
    LET cur == Named(S, k, n)
    IN (S \ cur) \cup {reconciled(x, t) : x \in {y \in cur : ~pastExpiry(y, t)}}


reconcileIn(S, k, n, t) ==
    LET cur == Named(S, k, n)
    IN (S \ cur) \cup {reconciled(x, t) : x \in cur}

\* the number of injected failures among the choices fs
faultCount(fs) == Cardinality({i \in 1..Len(fs) : fs[i] # "none"})

Event(t, id, r) == [type |-> t, id |-> id, rsv |-> r]

\* whether n more broker changes, reconnects or failed calls may happen
mayStep(n) ==
    steps.changes + steps.faults + steps.redeliveries + n <= MaxDeliverySteps
exists(id) == reservations[id] # NoRsv

\* the broker creates or changes a reservation; a watch receives the event
BrokerChange(id, r) ==
    /\ mayStep(1)
    /\ events = <<>>
    /\ r # reservations[id]
    /\ reservations' = [reservations EXCEPT ![id] = r]
    /\ events' = IF strategy = "watch"
                 THEN Append(events, Event(IF exists(id) THEN "MODIFIED"
                                           ELSE "ADDED", id, r))
                 ELSE events
    /\ steps' = [steps EXCEPT !.changes = @ + 1]
    /\ UNCHANGED <<strategy, instr, instrB, lastCall, clock>>
    /\ UNCHANGED <<pubVars, acctVars, cycVars, tskVars>>

\* the broker deletes a reservation; the event carries its last state
BrokerDelete(id) ==
    /\ mayStep(1)
    /\ events = <<>>
    /\ exists(id)
    /\ reservations' = [reservations EXCEPT ![id] = NoRsv]
    /\ events' = IF strategy = "watch"
                 THEN Append(events, Event("DELETED", id, reservations[id]))
                 ELSE events
    /\ steps' = [steps EXCEPT !.changes = @ + 1]
    /\ UNCHANGED <<strategy, instr, instrB, lastCall, clock>>
    /\ UNCHANGED <<pubVars, acctVars, cycVars, tskVars>>

\* the events a new watch starts with: ADDED for every reservation
initialEvents ==
    LET ids == SelectSeq(RsvIdSeq, exists)
    IN [j \in 1..Len(ids) |-> Event("ADDED", ids[j], reservations[ids[j]])]

\* the watch channel closes and Start opens a new watch
WatchReconnect ==
    /\ strategy = "watch"
    /\ events = <<>>
    /\ mayStep(1)
    /\ initialEvents # <<>>
    /\ events' = initialEvents
    /\ steps' = [steps EXCEPT !.redeliveries = @ + 1]
    /\ UNCHANGED <<strategy, reservations, instr, instrB, lastCall, clock>>
    /\ UNCHANGED <<pubVars, acctVars, cycVars, tskVars>>

\* one iteration of the watch loop
WatchEvent(fr, fp) ==
    /\ strategy = "watch"
    /\ events # <<>>
    /\ mayStep(faultCount(<<fr, fp>>))
    /\ LET h == watchHandle(instr, Head(events), fr, fp)
       IN /\ instr' = h.store
          /\ lastCall' = [handler |-> "watch", ev |-> Head(events),
                          calls |-> h.calls]
    /\ events' = Tail(events)
    /\ steps' = [steps EXCEPT !.faults = @ + faultCount(<<fr, fp>>)]
    /\ UNCHANGED <<strategy, reservations, instrB, clock>>
    /\ UNCHANGED <<pubVars, acctVars, cycVars, tskVars>>

\* the ticker fires: poll()
Poll(ff, fr, fp) ==
    /\ strategy = "poll"
    /\ mayStep(Cardinality(ff) + faultCount(<<fr, fp>>))
    /\ LET h == poll(instr, reservations, ff, fr, fp)
       IN /\ instr' = h.store
          /\ lastCall' = [handler |-> "poll", ev |-> NoEvent, calls |-> h.calls]
    /\ steps' = [steps EXCEPT
                    !.faults = @ + Cardinality(ff) + faultCount(<<fr, fp>>)]
    /\ UNCHANGED <<strategy, reservations, events, instrB, clock>>
    /\ UNCHANGED <<pubVars, acctVars, cycVars, tskVars>>

\* whether Reconcile of record x of kind k at time t calls
\* Status().Update: past the expiry the ProviderInstruction reconciler
\* always does and the ReservationInstruction reconciler only for a
\* delivered record; before it, both do for a record not yet marked
writesStatus(k, x, t) ==
    IF pastExpiry(x, t) THEN k = ProvKind \/ x.flag
    ELSE ~x.flag

\* what a Reconcile did: the kind and name of the record, its flag before,
\* and whether the status was written
Reconciliation(k, n, was, wrote) ==
    [type |-> k, id |-> n, rsv |-> NoRsv, was |-> was, wrote |-> wrote]

\* Reconcile of the record of kind k named n, every store call succeeding
\* (a failing Get or Status().Update returns the error and leaves the
\* stored record as it was)
Reconcile(k, n) ==
    /\ Named(instr, k, n) # {}
    /\ instr' = reconcileIn(instr, k, n, clock)
    /\ lastCall' = [handler |-> "reconcile",
                    ev |-> Reconciliation(k, n, flagOf(instr, k, n),
                                          \E x \in Named(instr, k, n) :
                                              writesStatus(k, x, clock)),
                    calls |-> {}]
    /\ UNCHANGED <<strategy, reservations, events, instrB, clock, steps>>
    /\ UNCHANGED <<pubVars, acctVars, cycVars, tskVars>>

ReconcileRequester(n) == Reconcile(ReqKind, n)
ReconcileProvider(n) == Reconcile(ProvKind, n)

\* time passes
Tick ==
    /\ clock < MaxClock
    /\ clock' = clock + 1
    /\ UNCHANGED <<strategy, reservations, events, instr, instrB, lastCall,
                   steps>>
    /\ UNCHANGED <<pubVars, acctVars, cycVars, tskVars>>

InitAcctIdle ==
    /\ nodes = <<>> /\ pods = <<>> /\ holds = <<>> /\ now = 0
    /\ acct = [state |-> "none"]
    /\ cycle = "none"

\* main starts the watcher or the poller, after the transport chosen
InitDeliver ==
    /\ channel = "k8s"
    /\ InitPubIdle
    /\ InitCycIdle
    /\ InitTskIdle
    /\ InitAcctIdle
    /\ strategy \in {"watch", "poll"}
    /\ reservations = [id \in RsvIds |-> NoRsv]
    /\ events = <<>>
    /\ instr = {}
    /\ instrB = {}
    /\ lastCall = NoCall
    /\ clock = 0
    /\ steps = [changes |-> 0, faults |-> 0, redeliveries |-> 0]

InstructionNames == {n : n \in RsvIds} \cup {n \o <<"-provider">> : n \in RsvIds}

NextDeliver ==
    \/ \E id \in RsvIds : \E r \in RsvStatesOf(id) : BrokerChange(id, r)
    \/ \E id \in RsvIds : BrokerDelete(id)
    \/ WatchReconnect
    \/ \E fr, fp \in {"none"} \cup StoreFaults : WatchEvent(fr, fp)
    \/ \E ff \in SUBSET {"requester", "provider"},
          fr, fp \in {"none", "get", "write"} : Poll(ff, fr, fp)
    \/ \E n \in InstructionNames : ReconcileRequester(n)
    \/ \E n \in InstructionNames : ReconcileProvider(n)
    \/ Tick

SpecDeliver == InitDeliver /\ [][NextDeliver]_vars

--------------------------------------------------------------------------
\* Two agents of the same cluster identity against one broker: the first
\* watches (records instr), the second polls (records instrB).  Every state
\* of the broker is shown to both: the watcher handles the event and the
\* poller runs poll() over the reservations as they then are.

\* a new watch: the loop handles ADDED for every reservation, from the i-th
RECURSIVE redeliverFrom(_, _)
redeliverFrom(S, i) ==
    IF i > Len(RsvIdSeq) THEN S
    ELSE LET id == RsvIdSeq[i]
         IN redeliverFrom(
               IF exists(id)
               THEN watchHandle(S, Event("ADDED", id, reservations[id]),
                                "none", "none").store
               ELSE S,
               i + 1)

CompareObserve(id, r) ==
    /\ mayStep(1)
    /\ r # reservations[id]
    /\ reservations' = [reservations EXCEPT ![id] = r]
    /\ LET ev == Event(IF exists(id) THEN "MODIFIED" ELSE "ADDED", id, r)
           h == watchHandle(instr, ev, "none", "none")
       IN /\ instr' = h.store
          /\ lastCall' = [handler |-> "watch", ev |-> ev, calls |-> h.calls]
    /\ instrB' = poll(instrB, reservations', {}, "none", "none").store
    /\ steps' = [steps EXCEPT !.changes = @ + 1]
    /\ UNCHANGED <<strategy, events, clock>>
    /\ UNCHANGED <<pubVars, acctVars, cycVars, tskVars>>

CompareReobserve ==
    /\ mayStep(1)
    /\ \E id \in RsvIds : exists(id)
    /\ instr' = redeliverFrom(instr, 1)
    /\ instrB' = poll(instrB, reservations, {}, "none", "none").store
    /\ lastCall' = [handler |-> "rewatch", ev |-> NoEvent, calls |-> {}]
    /\ steps' = [steps EXCEPT !.redeliveries = @ + 1]
    /\ UNCHANGED <<strategy, reservations, events, clock>>
    /\ UNCHANGED <<pubVars, acctVars, cycVars, tskVars>>

\* the instruction reconcilers of both agents run on the record named n
CompareReconcile(k, n) ==
    /\ Named(instr, k, n) \cup Named(instrB, k, n) # {}
    /\ instr' = reconcileIn(instr, k, n, clock)
    /\ instrB' = reconcileIn(instrB, k, n, clock)
    /\ lastCall' = [handler |-> "reconcile", ev |-> NoEvent, calls |-> {}]
    /\ UNCHANGED <<strategy, reservations, events, clock, steps>>
    /\ UNCHANGED <<pubVars, acctVars, cycVars, tskVars>>

InitCompare ==
    /\ channel = "k8s"
    /\ InitPubIdle
    /\ InitCycIdle
    /\ InitTskIdle
    /\ InitAcctIdle
    /\ InitDlvIdle

NextCompare ==
    \/ \E id \in RsvIds : \E r \in RsvStatesOf(id) : CompareObserve(id, r)
    \/ CompareReobserve
    \/ \E k \in {ReqKind, ProvKind}, n \in InstructionNames :
          CompareReconcile(k, n)
    \/ Tick

SpecCompare == InitCompare /\ [][NextCompare]_vars

--------------------------------------------------------------------------
\* Claims about reservation delivery

\* the records of kind k the store holds for reservation id
RecordsFor(S, k, id) == {x \in S : x.kind = k /\ x.reservationName = id}
KindOf(fn) == IF fn = "requester" THEN ReqKind ELSE ProvKind

\* C15: after any sequence of observations the local store holds, for a
\* reservation, at most one RequesterInstruction, named by the reservation
\* id, and at most one ProviderInstruction, named by the id plus
\* "-provider"; after an observation that wrote it, exactly one
C15_NoDuplicateInstructions ==
    /\ \A id \in RsvIds :
          /\ Cardinality(RecordsFor(instr, ReqKind, id)) <= 1
          /\ Cardinality(RecordsFor(instr, ProvKind, id)) <= 1
          /\ \A x \in RecordsFor(instr, ReqKind, id) : x.name = id
          /\ \A x \in RecordsFor(instr, ProvKind, id) :
                x.name = id \o <<"-provider">>
    /\ \A c \in lastCall.calls :
          c.err = NoErr =>
              Cardinality(RecordsFor(instr, KindOf(c.fn), c.id)) = 1

\* the same Reserved reservation observed again after a watch reconnect,
\* its record being there before the call
C15_Witness ==
    /\ strategy = "watch"
    /\ steps.redeliveries >= 1
    /\ lastCall.handler = "watch"
    /\ lastCall.ev.type = "ADDED"
    /\ \E c \in lastCall.calls :
          /\ c.err = NoErr /\ c.was # "absent"
          /\ Cardinality(RecordsFor(instr, KindOf(c.fn), c.id)) = 1

\* the peer cluster an instruction of a call names
PeerOf(c) == IF c.fn = "requester" THEN c.rsv.target ELSE c.rsv.requester

\* C16: when a reservation that already has a local instruction is observed
\* again, under the watch strategy or under the poll strategy, the record
\* carries the latest observed target/requester, amounts and expiry
C16_FieldsFollowLatest ==
    \A c \in lastCall.calls :
        (c.err = NoErr /\ c.was # "absent") =>
            \A x \in RecordsFor(instr, KindOf(c.fn), c.id) :
                /\ x.peer = PeerOf(c)
                /\ x.cpu = c.rsv.cpu
                /\ x.memory = c.rsv.memory
                /\ x.expiresAt = c.rsv.expiresAt

C19_UpsertResetsDelivered ==
    lastCall.handler = "watch" =>
        \A c \in lastCall.calls :
            (c.fn = "requester" /\ c.err = NoErr) =>
                /\ RecordsFor(instr, ReqKind, c.id) # {}
                /\ \A x \in RecordsFor(instr, ReqKind, c.id) : ~x.flag

\* a record that was delivered=true has been rewritten by the upsert
C19_Witness ==
    /\ lastCall.handler = "watch"
    /\ \E c \in lastCall.calls :
          /\ c.fn = "requester" /\ c.err = NoErr /\ c.was = "true"
          /\ \A x \in RecordsFor(instr, ReqKind, c.id) : ~x.flag

\* C20: upsertProviderInstruction for reservation R creates a record named
\* R + "-provider" carrying the requester cluster and the requested amounts,
\* with enforced=false; its name is never the name R of the requester side
C20_ProviderInstructionCreated ==
    /\ \A x \in instr : x.kind = ProvKind => x.name # x.reservationName
    /\ lastCall.handler = "watch" =>
          \A c \in lastCall.calls :
              (c.fn = "provider" /\ c.err = NoErr /\ c.was = "absent") =>
                  /\ Cardinality(RecordsFor(instr, ProvKind, c.id)) = 1
                  /\ \A x \in RecordsFor(instr, ProvKind, c.id) :
                        /\ x.name = c.id \o <<"-provider">>
                        /\ x.peer = c.rsv.requester
                        /\ x.cpu = c.rsv.cpu
                        /\ x.memory = c.rsv.memory
                        /\ ~x.flag

\* the provider-side record of a reservation has been created while the
\* requester-side record of the same reservation exists
C20_Witness ==
    /\ lastCall.handler = "watch"
    /\ \E c \in lastCall.calls :
          /\ c.fn = "provider" /\ c.err = NoErr /\ c.was = "absent"
          /\ RecordsFor(instr, ReqKind, c.id) # {}
          /\ \E x \in RecordsFor(instr, ProvKind, c.id) :
                x.name = c.id \o <<"-provider">>

\* C17: shown the same sequence of broker reservation states, the watch
\* strategy and the poll strategy leave the local store with the same set
\* of instruction records: same names, same spec fields, same
\* delivered/enforced values
C17_StrategiesAgree == instr = instrB

--------------------------------------------------------------------------
\* Claims about the instruction reconcilers

\* a step of Reconcile: the handler that ran last is a reconciler, and
\* neither the broker, the watch nor the clock moved
ReconcileStep ==
    /\ lastCall'.handler = "reconcile"
    /\ reservations' = reservations /\ events' = events /\ clock' = clock
    /\ <<instr, lastCall>>' # <<instr, lastCall>>

C22_NoRecordDeleted ==
    [][\A x \in instr :
          \E y \in instr' :
              /\ y.kind = x.kind /\ y.name = x.name
              /\ y.reservationName = x.reservationName
      ]_vars

\* an expired record of a reservation the broker has deleted has been
\* reconciled and is still there
C22_Witness ==
    /\ lastCall.handler = "reconcile"
    /\ \E x \in Named(instr, lastCall.ev.type, lastCall.ev.id) :
          /\ pastExpiry(x, clock)
          /\ ~exists(x.reservationName)

\* ======================================================================
\* Start-up: main chooses the broker channel from its flags
\* ======================================================================

\* the flag values main can be started with
Transports == {"", "http", "kubernetes", "mqtt"}
Kubeconfigs == {"", "broker.kubeconfig", "unreadable.kubeconfig"}
BrokerURLs == {"", "https://broker"}
CertPaths == {"", "certs", "unreadable-certs"}
FlagSets ==
    [clusterID : {"", ClusterID}, transport : Transports,
     kubeconfig : Kubeconfigs, url : BrokerURLs, cert : CertPaths]

\* main: the legacy kubeconfig flag selects the kubernetes transport
brokerTransportOf(f) ==
    IF f.kubeconfig # "" /\ f.transport = "" THEN "kubernetes" ELSE f.transport

\* publisher.NewBrokerClient: "disabled" is the client with Enabled false
NewBrokerClient(kubeconfig) ==
    IF kubeconfig = "" THEN [client |-> "disabled", err |-> NoErr]
    ELSE IF kubeconfig = "unreadable.kubeconfig"
    THEN [client |-> "nil", err |-> "failed to load broker kubeconfig"]
    ELSE [client |-> "enabled", err |-> NoErr]

\* a variant that builds an enabled client for any transport whenever a
\* kubeconfig is given
brokerClientWhenever(f, t) ==
    IF f.kubeconfig = "broker.kubeconfig"
    THEN [client |-> "enabled", err |-> NoErr]
    ELSE IF t = "kubernetes" THEN NewBrokerClient(f.kubeconfig)
    ELSE [client |-> "nil", err |-> NoErr]

\* main's switch: the BrokerClient is built under "kubernetes" only
brokerClientOf(f, t) ==
    IF t = "kubernetes" THEN NewBrokerClient(f.kubeconfig)
    ELSE [client |-> "nil", err |-> NoErr]

\* NewCommunicator followed by NewHTTPCommunicator
NewCommunicator(t, url, cert) ==
    IF t = "http"
    THEN IF url = "" THEN [comm |-> "nil", err |-> "broker-url is required"]
         ELSE IF cert = ""
         THEN [comm |-> "nil", err |-> "broker-cert-path is required"]
         ELSE IF cert = "unreadable-certs"
         THEN [comm |-> "nil", err |-> "failed to load client certificate"]
         ELSE [comm |-> "http", err |-> NoErr]
    ELSE IF t = "kubernetes"
    THEN [comm |-> "nil", err |-> "kubernetes transport not yet implemented"]
    ELSE [comm |-> "nil", err |-> "unknown transport type"]

\* main's switch: the communicator is built under "http" only
brokerCommunicatorOf(f, t) ==
    IF t = "http" THEN NewCommunicator(t, f.url, f.cert)
    ELSE [comm |-> "nil", err |-> NoErr]

\* what main builds and which task it starts; "exited" is os.Exit(1)
brokerSetup(f) ==
    LET t == brokerTransportOf(f)
        c == brokerClientOf(f, t)
        m == brokerCommunicatorOf(f, t)
    IN  IF t \notin {"", "http", "kubernetes"} \/ c.err # NoErr \/ m.err # NoErr
        THEN [state |-> "exited", client |-> "nil", comm |-> "nil",
              watcher |-> FALSE, poller |-> FALSE]
        ELSE [state |-> "running", client |-> c.client, comm |-> m.comm,
              watcher |-> c.client = "enabled",
              poller |-> t = "http" /\ m.comm # "nil"]

\* main: the cluster id is the flag, or else the kube-system UID
clusterIDOf(f, ns) ==
    IF f.clusterID # "" THEN [id |-> f.clusterID, err |-> NoErr]
    ELSE IF ns.err # NoErr THEN [id |-> "", err |-> ns.err]
    ELSE [id |-> ns.uid, err |-> NoErr]

\* main up to mgr.Start
Main(f) ==
    /\ wiring.state = "unset"
    /\ flags' = f
    /\ LET id == clusterIDOf(f, kubeSystem)
       IN  IF id.err # NoErr
           THEN /\ wiring' = [NoWiring EXCEPT !.state = "exited"]
                /\ UNCHANGED collector
           ELSE /\ wiring' = brokerSetup(f)
                /\ collector' = [ClusterIDOverride |-> id.id]
    /\ UNCHANGED <<kubeSystem, localAdv, reconcile, sent, returned, cycles>>
    /\ UNCHANGED <<pubVars, acctVars, dlvVars, tskVars>>

\* ======================================================================
\* AdvertisementReconciler.Reconcile, one cycle in four steps
\* ======================================================================

\* a variant that reads the namespace before it looks at the override
GetClusterIDReadingFirst(c, ns) ==
    IF ns.err # NoErr
    THEN [id |-> "", err |-> "failed to get kube-system namespace", reads |-> 1]
    ELSE IF c.ClusterIDOverride # ""
    THEN [id |-> c.ClusterIDOverride, err |-> NoErr, reads |-> 1]
    ELSE [id |-> ns.uid, err |-> NoErr, reads |-> 1]

\* Collector.GetClusterID; reads counts its reads of the store
GetClusterID(c, ns) ==
    IF c.ClusterIDOverride # ""
    THEN [id |-> c.ClusterIDOverride, err |-> NoErr, reads |-> 0]
    ELSE IF ns.err # NoErr
    THEN [id |-> "", err |-> "failed to get kube-system namespace", reads |-> 1]
    ELSE [id |-> ns.uid, err |-> NoErr, reads |-> 1]

RequeueInterval == 30

\* the ResourceMetrics a successful accounting returns
metricsOf(m) ==
    [capacity |-> m.capacity, allocatable |-> m.allocatable,
     allocated |-> m.allocated, reserved |-> m.reserved,
     available |-> m.available]

\* a variant of the spec assignment that keeps the resources it read
specKeepingResources(spec, id, m, t) ==
    [spec EXCEPT !.clusterID = id, !.timestamp = t]

\* Reconcile: the three assignments to advertisement.Spec
specWith(spec, id, m, t) ==
    [clusterID |-> id, resources |-> m, timestamp |-> t]

\* a variant of updateStatus that always marks the record published
statusWithPublished(phase, published, message) ==
    [phase |-> phase, published |-> TRUE, message |-> message]

\* updateStatus: the status it assigns and what it returns
statusWith(phase, published, message) ==
    [phase |-> phase, published |-> published, message |-> message]
updateStatusResult(f) ==
    IF f # NoErr THEN [requeue |-> 0, err |-> f]
    ELSE [requeue |-> RequeueInterval, err |-> NoErr]

\* a variant of the return that surfaces a publish failure
cycleReturnSurfacing(res, o) ==
    IF o = NoErr THEN res ELSE [requeue |-> 0, err |-> o]

\* Reconcile: "return result, err" after the publish block
cycleReturn(res, o) == res

\* Reconcile publishes iff the BrokerClient is there and enabled
publishEnabled(w) == w.client = "enabled"

MaxCycles == 2
StoreErrors == {NoErr, "conflict"}
Returned(c, at, res) == [cycle |-> c, failedAt |-> at, result |-> res]

\* Reconcile: r.Get of the Advertisement
CycleStart(g) ==
    /\ wiring.state = "running"
    /\ reconcile.state = "none"
    /\ cycles < MaxCycles
    /\ cycles' = cycles + 1
    /\ IF g = "found"
       THEN /\ reconcile' = [state |-> "started", adv |-> localAdv]
            /\ acct' = [state |-> "none"]
            /\ cycle' = "none"
            /\ UNCHANGED returned
       ELSE /\ returned' = Returned(cycles', "get",
                   [requeue |-> 0,
                    err |-> IF g = "not found" THEN NoErr ELSE g])
            /\ UNCHANGED <<reconcile, acct, cycle>>
    /\ UNCHANGED <<nodes, pods, holds, now>>
    /\ UNCHANGED <<flags, wiring, collector, kubeSystem, localAdv, sent>>
    /\ UNCHANGED <<pubVars, dlvVars, tskVars>>

\* Reconcile: accounting failed, updateStatus("Error") and return
CycleStatusError(fs) ==
    /\ reconcile.state = "started"
    /\ cycle = "status-error"
    /\ localAdv' = IF fs = NoErr
                   THEN [localAdv EXCEPT !.status =
                            statusWith("Error", FALSE, acct.err)]
                   ELSE localAdv
    /\ returned' = Returned(cycles, "accounting", updateStatusResult(fs))
    /\ reconcile' = [state |-> "none"]
    /\ UNCHANGED <<flags, wiring, collector, kubeSystem, sent, cycles>>
    /\ UNCHANGED <<pubVars, acctVars, dlvVars, tskVars>>

\* Reconcile: GetClusterID, the spec assignments, r.Update and
\* updateStatus("Active"); without a publisher the cycle returns here
CycleUpdate(fu, fs) ==
    /\ reconcile.state = "started"
    /\ cycle = "publish"
    /\ LET id == GetClusterID(collector, kubeSystem)
           spec == specWith(reconcile.adv.spec, id.id, metricsOf(acct), cycles)
           res == updateStatusResult(fs)
           status == statusWith("Active", TRUE,
                                "Advertisement updated successfully")
       IN  IF id.err # NoErr
           THEN /\ localAdv' = IF fs = NoErr
                               THEN [localAdv EXCEPT !.status =
                                        statusWith("Error", FALSE, id.err)]
                               ELSE localAdv
                /\ returned' = Returned(cycles, "cluster id", res)
                /\ reconcile' = [state |-> "none"]
           ELSE IF fu # NoErr
           THEN /\ returned' = Returned(cycles, "update",
                                        [requeue |-> 0, err |-> fu])
                /\ reconcile' = [state |-> "none"]
                /\ UNCHANGED localAdv
           ELSE /\ localAdv' = [spec |-> spec,
                                status |-> IF fs = NoErr THEN status
                                           ELSE localAdv.status]
                /\ IF publishEnabled(wiring)
                   THEN /\ reconcile' =
                              [state |-> "publish",
                               adv |-> [spec |-> spec, status |-> status],
                               result |-> res]
                        /\ UNCHANGED returned
                   ELSE /\ returned' = Returned(cycles,
                              IF fs = NoErr THEN "none" ELSE "status", res)
                        /\ reconcile' = [state |-> "none"]
    /\ UNCHANGED <<flags, wiring, collector, kubeSystem, sent, cycles>>
    /\ UNCHANGED <<pubVars, acctVars, dlvVars, tskVars>>

\* Reconcile: BrokerClient.PublishAdvertisement and the return; o is the
\* error of the publish
CyclePublish(o) ==
    /\ reconcile.state = "publish"
    /\ sent' = Append(sent, [cycle |-> cycles,
                             clusterID |-> reconcile.adv.spec.clusterID,
                             resources |-> reconcile.adv.spec.resources,
                             err |-> o])
    /\ returned' = Returned(cycles,
                      IF reconcile.result.err = NoErr THEN "none" ELSE "status",
                      cycleReturn(reconcile.result, o))
    /\ reconcile' = [state |-> "none"]
    /\ UNCHANGED <<flags, wiring, collector, kubeSystem, localAdv, cycles>>
    /\ UNCHANGED <<pubVars, acctVars, dlvVars, tskVars>>

\* the cluster changes between two cycles
CycleNodes == {<<>>, <<ReadyPlain>>, <<ReadyGpu>>}
StoreChange(ns) ==
    /\ wiring.state = "running"
    /\ reconcile.state = "none"
    /\ cycles >= 1
    /\ ns # nodes
    /\ nodes' = ns
    /\ UNCHANGED <<pods, holds, now, acct, cycle>>
    /\ UNCHANGED <<pubVars, dlvVars, cycVars, tskVars>>

\* main's ensureAdvertisementExists creates the record with zero metrics
defaultResourceMetrics ==
    [capacity |-> ZeroRQ, allocatable |-> ZeroRQ, allocated |-> ZeroRQ,
     reserved |-> ZeroRQ, available |-> ZeroRQ]

KubeSystems == {[err |-> NoErr, uid |-> "uid-1"],
                [err |-> "forbidden", uid |-> ""]}

InitCycle ==
    /\ channel = "k8s"
    /\ InitPubIdle
    /\ InitDlvIdle
    /\ InitTskIdle
    /\ flags = NoFlags
    /\ wiring = NoWiring
    /\ collector = [ClusterIDOverride |-> ""]
    /\ kubeSystem \in KubeSystems
    /\ localAdv = [spec |-> [clusterID |-> ClusterID,
                             resources |-> defaultResourceMetrics,
                             timestamp |-> 0],
                   status |-> NoStatus]
    /\ reconcile = [state |-> "none"]
    /\ sent = <<>>
    /\ returned = Returned(0, "none", NoReturn)
    /\ cycles = 0
    /\ nodes \in CycleNodes
    /\ pods = <<Pod("Running", <<AppRequests>>, <<>>, EmptyRL)>>
    /\ holds = <<>>
    /\ now = 1
    /\ acct = [state |-> "idle"]
    /\ cycle = "none"

CollectErrors == {"none", "failed to list nodes"}

NextCycle ==
    \/ \E f \in FlagSets : Main(f)
    \/ \E g \in {"found", "not found", "timeout"} : CycleStart(g)
    \/ \E f \in CollectErrors : Collect(f)
    \/ \E fs \in StoreErrors : CycleStatusError(fs)
    \/ \E fu \in StoreErrors, fs \in StoreErrors : CycleUpdate(fu, fs)
    \/ \E o \in {NoErr, "max retries exceeded"} : CyclePublish(o)
    \/ \E ns \in CycleNodes : StoreChange(ns)

SpecCycle == InitCycle /\ [][NextCycle]_vars

\* ======================================================================
\* Collector.GetClusterID called on collectors built with any override
\* ======================================================================

Overrides == {"", ClusterID, OtherCluster, "uid-1"}
Namespaces == {[err |-> NoErr, uid |-> "uid-1"],
               [err |-> NoErr, uid |-> "uid-2"],
               [err |-> "forbidden", uid |-> ""],
               [err |-> "not found", uid |-> ""],
               [err |-> "timeout", uid |-> ""]}

MaxCalls == 3

CallGetClusterID ==
    /\ cycles < MaxCalls
    /\ cycles' = cycles + 1
    /\ returned' = [cycle |-> cycles',
                    result |-> GetClusterID(collector, kubeSystem)]
    /\ UNCHANGED <<flags, wiring, collector, kubeSystem, localAdv, reconcile,
                   sent>>
    /\ UNCHANGED <<pubVars, acctVars, dlvVars, tskVars>>

\* the kube-system namespace as the store returns it changes
NamespaceChange(ns) ==
    /\ ns # kubeSystem
    /\ kubeSystem' = ns
    /\ UNCHANGED <<flags, wiring, collector, localAdv, reconcile, sent,
                   returned, cycles>>
    /\ UNCHANGED <<pubVars, acctVars, dlvVars, tskVars>>

InitClusterID ==
    /\ channel = "k8s"
    /\ InitPubIdle
    /\ InitAcctIdle
    /\ InitDlvIdle
    /\ InitTskIdle
    /\ flags = NoFlags
    /\ wiring = NoWiring
    /\ collector \in [ClusterIDOverride : Overrides]
    /\ kubeSystem \in Namespaces
    /\ localAdv = [spec |-> [clusterID |-> "", resources |-> None,
                             timestamp |-> 0],
                   status |-> NoStatus]
    /\ reconcile = [state |-> "none"]
    /\ sent = <<>>
    /\ returned = [cycle |-> 0,
                   result |-> [id |-> "", err |-> "unset", reads |-> 0]]
    /\ cycles = 0

NextClusterID ==
    \/ CallGetClusterID
    \/ \E ns \in Namespaces : NamespaceChange(ns)

SpecClusterID == InitClusterID /\ [][NextClusterID]_vars

\* ======================================================================
\* Claims about start-up and the reconcile cycle
\* ======================================================================

\* C28: whatever the broker-transport and broker-kubeconfig flags are, main
\* never builds both the BrokerClient and the HTTP communicator and never
\* starts both the reservation watcher and the reservation poller; when no
\* transport is selected (no broker-transport and no legacy kubeconfig),
\* neither task is started and no advertisement is published.
C28_OneChannel ==
    /\ ~(wiring.client # "nil" /\ wiring.comm # "nil")
    /\ ~(wiring.watcher /\ wiring.poller)
    /\ sent # <<>> => wiring.client = "enabled" /\ wiring.comm = "nil"
    /\ (wiring.state # "unset" /\ flags.transport = "" /\ flags.kubeconfig = "")
          => /\ wiring.client = "nil" /\ wiring.comm = "nil"
             /\ ~wiring.watcher /\ ~wiring.poller
             /\ sent = <<>>

\* main ran with the http transport and a broker kubeconfig both given, and
\* a cycle has run
C28_Witness ==
    /\ wiring.state = "running"
    /\ flags.transport = "http" /\ flags.kubeconfig = "broker.kubeconfig"
    /\ wiring.poller /\ ~wiring.watcher
    /\ returned.cycle >= 1 /\ returned.failedAt = "none"

\* C30: GetClusterID returns the override when it is non-empty, with no read
\* of the store; otherwise the UID of kube-system, or an error when that
\* namespace cannot be read.
C30_ClusterIDSource ==
    [][cycles' # cycles =>
         LET r == returned'.result
             o == collector.ClusterIDOverride
         IN  /\ o # "" => r.id = o /\ r.err = NoErr /\ r.reads = 0
             /\ (o = "" /\ kubeSystem.err = NoErr)
                   => r.id = kubeSystem.uid /\ r.err = NoErr
             /\ (o = "" /\ kubeSystem.err # NoErr)
                   => r.id = "" /\ r.err # NoErr]_vars

\* an override was returned while kube-system could not be read
C30_Witness ==
    /\ returned.cycle >= 1
    /\ collector.ClusterIDOverride = ClusterID
    /\ kubeSystem.err = "forbidden"
    /\ returned.result = [id |-> ClusterID, err |-> NoErr, reads |-> 0]

\* C26: a cycle calls the publish only after its accounting succeeded and
\* the local advertisement was updated with that result in the same cycle,
\* and the Capacity, Allocatable, Allocated and Available it hands over are
\* that accounting's; a cycle whose accounting or spec update failed has no
\* publish.
C26_PublishAfterAccounting ==
    [][/\ sent' # sent =>
            /\ Len(sent') = Len(sent) + 1
            /\ acct.state = "ok"
            /\ localAdv.spec.timestamp = cycles
            /\ localAdv.spec.resources.capacity = acct.capacity
            /\ localAdv.spec.resources.allocatable = acct.allocatable
            /\ localAdv.spec.resources.allocated = acct.allocated
            /\ localAdv.spec.resources.available = acct.available
            /\ LET p == sent'[Len(sent')]
               IN  /\ p.cycle = cycles
                   /\ p.resources.capacity = acct.capacity
                   /\ p.resources.allocatable = acct.allocatable
                   /\ p.resources.allocated = acct.allocated
                   /\ p.resources.available = acct.available
       /\ returned'.failedAt \in {"accounting", "update"} =>
            \A i \in DOMAIN sent' : sent'[i].cycle # returned'.cycle]_vars

\* the first cycle published its accounting and the second, whose
\* accounting failed, published nothing
C26_Witness ==
    /\ Len(sent) = 1
    /\ sent[1].cycle = 1
    /\ sent[1].resources = localAdv.spec.resources
    /\ sent[1].resources.capacity.cpu > 0
    /\ returned.cycle = 2
    /\ returned.failedAt = "accounting"

\* C27: when the publish fails, the cycle returns what updateStatus
\* returned, as it does when the publish succeeds (requeue after the
\* interval and no error once the status was written), and the local
\* advertisement's spec and status stay as the cycle wrote them.
C27_PublishFailureKeepsOutcome ==
    [][(sent' # sent /\ sent'[Len(sent')].err # NoErr) =>
           /\ localAdv' = localAdv
           /\ localAdv.spec = reconcile.adv.spec
           /\ returned'.cycle = cycles
           /\ returned'.result = reconcile.result
           /\ reconcile.result.err = NoErr =>
                 /\ localAdv.status = reconcile.adv.status
                 /\ returned'.result =
                        [requeue |-> RequeueInterval, err |-> NoErr]]_vars

\* a cycle whose publish failed returned the requeue and left the record
\* Active with that cycle's metrics
C27_Witness ==
    /\ sent # <<>>
    /\ sent[Len(sent)].err = "max retries exceeded"
    /\ returned.cycle = sent[Len(sent)].cycle
    /\ returned.result = [requeue |-> RequeueInterval, err |-> NoErr]
    /\ localAdv.status.phase = "Active"
    /\ localAdv.spec.resources = sent[Len(sent)].resources

\* ======================================================================
\* The long-running tasks main starts: ReservationWatcher.Start and
\* ReservationPoller.Start
\* ======================================================================

\* the context main hands to both Start calls: context.Background(), not
\* the one ctrl.SetupSignalHandler() cancels
StartCtx == "background"

\* <-ctx.Done() is ready
ctxDone(c) == c = "signal" /\ signal

\* Start's backoff parameters, in seconds
watchBackoff == 1
watchMaxBackoff == 60
closedStreamDelay == 1

\* a variant of the doubling without the ceiling
nextBackoffUncapped(b) == b * 2

\* Start: backoff = backoff * 2, capped at maxBackoff
nextBackoff(b) == IF b * 2 > watchMaxBackoff THEN watchMaxBackoff ELSE b * 2

MaxWatchFailures == 8

\* what a watch event can carry; the shape says which part of the object
\* is missing
Shapes == {"ok", "no-spec", "no-ids", "no-status", "no-phase", "no-resources"}
TaskRsvs == {Rsv("Reserved", ClusterID, OtherCluster, "1", {}),
             Rsv("Reserved", OtherCluster, ClusterID, "2", {}),
             Rsv("Pending", ClusterID, OtherCluster, "1", {})}
Raw(s, t, id, r) == [shape |-> s, type |-> t, id |-> id, rsv |-> r]
RawEvents ==
    {Raw(s, t, RsvIdSeq[1], r) :
        s \in Shapes, t \in {"ADDED", "DELETED"}, r \in TaskRsvs}
    \cup {Raw("not-object", "ERROR", <<>>, NoRsv)}

\* a variant that writes from an event without requestedResources
watchStepLenient(S, raw, fr, fp) ==
    IF raw.shape \notin {"ok", "no-resources"} THEN [store |-> S, calls |-> {}]
    ELSE watchHandle(S, Event(raw.type, raw.id, raw.rsv), fr, fp)

\* Start: the body of the range loop for one event
watchStep(S, raw, fr, fp) ==
    IF raw.shape # "ok" THEN [store |-> S, calls |-> {}]
    ELSE watchHandle(S, Event(raw.type, raw.id, raw.rsv), fr, fp)

\* Start up to the loop; main calls it iff the client is enabled
WatcherStart ==
    /\ wiring.watcher
    /\ wpc = "off"
    /\ wpc' = "select"
    /\ wBackoff' = watchBackoff
    /\ failureCount' = 0
    /\ UNCHANGED <<signal, wSlept, ppc, fetchLog, ticks>>
    /\ UNCHANGED <<pubVars, acctVars, dlvVars, cycVars>>

\* Start: the select at the top of the loop and the Watch call; o is
\* whether the stream opened
WatcherSelect(o) ==
    /\ wpc = "select"
    /\ IF ctxDone(StartCtx)
       THEN /\ wpc' = "returned"
            /\ UNCHANGED <<wBackoff, failureCount, wSlept>>
       ELSE IF o = "fail"
       THEN /\ failureCount < MaxWatchFailures
            /\ failureCount' = failureCount + 1
            /\ wSlept' = wBackoff
            /\ wBackoff' = nextBackoff(wBackoff)
            /\ wpc' = "select"
       ELSE /\ wBackoff' = watchBackoff
            /\ failureCount' = 0
            /\ wpc' = "stream"
            /\ UNCHANGED wSlept
    /\ UNCHANGED <<signal, ppc, fetchLog, ticks>>
    /\ UNCHANGED <<pubVars, acctVars, dlvVars, cycVars>>

\* Start: one event of the open stream
WatcherEvent(raw, fr, fp) ==
    /\ wpc = "stream"
    /\ LET h == watchStep(instr, raw, fr, fp)
       IN  /\ instr' = h.store
           /\ lastCall' = [handler |-> "watch", ev |-> raw, calls |-> h.calls]
    /\ UNCHANGED <<strategy, reservations, events, instrB, clock, steps>>
    /\ UNCHANGED <<pubVars, acctVars, cycVars, tskVars>>

\* Start: the stream closed, sleep and go round
WatcherStreamClosed ==
    /\ wpc = "stream"
    /\ wSlept' = closedStreamDelay
    /\ wpc' = "select"
    /\ UNCHANGED <<signal, wBackoff, failureCount, ppc, fetchLog, ticks>>
    /\ UNCHANGED <<pubVars, acctVars, dlvVars, cycVars>>

\* main: the interval it builds the poller with, in seconds
PollInterval == 30

\* a variant of poll that gives up after a failed fetch
fetchesStoppingAtFailure(ff) ==
    IF "requester" \in ff
    THEN <<[role |-> "requester", err |-> "fetch failed"]>>
    ELSE <<[role |-> "requester", err |-> NoErr],
           [role |-> "provider",
            err |-> IF "provider" \in ff THEN "fetch failed" ELSE NoErr]>>

\* poll: the FetchReservations calls it makes, in order
fetches(ff) ==
    <<[role |-> "requester",
       err |-> IF "requester" \in ff THEN "fetch failed" ELSE NoErr],
      [role |-> "provider",
       err |-> IF "provider" \in ff THEN "fetch failed" ELSE NoErr]>>

\* poll, with the fetches that fail and the fault of its writes
Polled(ff, f) ==
    /\ LET h == poll(instr, reservations, ff, f, f)
       IN  /\ instr' = h.store
           /\ lastCall' = [handler |-> "poll", ev |-> NoEvent,
                           calls |-> h.calls]
    /\ fetchLog' = fetches(ff)

\* ticks are counted up to MaxTicks; the ticker goes on firing after that
MaxTicks == 2

\* Start up to the loop: the ticker and the initial poll
PollerStart(ff, f) ==
    /\ wiring.poller
    /\ ppc.state = "off"
    /\ ppc' = [state |-> "wait", interval |-> PollInterval]
    /\ Polled(ff, f)
    /\ UNCHANGED <<signal, wpc, wBackoff, failureCount, wSlept, ticks>>
    /\ UNCHANGED <<strategy, reservations, events, instrB, clock, steps>>
    /\ UNCHANGED <<pubVars, acctVars, cycVars>>

\* Start: the select of the loop, and poll on a tick
PollerSelect(ff, f) ==
    /\ ppc.state = "wait"
    /\ IF ctxDone(StartCtx)
       THEN /\ ppc' = [ppc EXCEPT !.state = "returned"]
            /\ UNCHANGED <<instr, lastCall, fetchLog, ticks>>
       ELSE /\ ticks' = IF ticks < MaxTicks THEN ticks + 1 ELSE ticks
            /\ Polled(ff, f)
            /\ UNCHANGED ppc
    /\ UNCHANGED <<signal, wpc, wBackoff, failureCount, wSlept>>
    /\ UNCHANGED <<strategy, reservations, events, instrB, clock, steps>>
    /\ UNCHANGED <<pubVars, acctVars, cycVars>>

\* the process receives SIGTERM or SIGINT
Signal ==
    /\ wiring.state = "running"
    /\ ~signal
    /\ signal' = TRUE
    /\ UNCHANGED <<wpc, wBackoff, failureCount, wSlept, ppc, fetchLog, ticks>>
    /\ UNCHANGED <<pubVars, acctVars, dlvVars, cycVars>>

\* flags that select each channel, and none
TaskFlags ==
    {[NoFlags EXCEPT !.clusterID = ClusterID],
     [NoFlags EXCEPT !.clusterID = ClusterID, !.kubeconfig = "broker.kubeconfig"],
     [NoFlags EXCEPT !.clusterID = ClusterID, !.transport = "http",
                     !.url = "https://broker", !.cert = "certs"]}

TaskReservations ==
    {[id \in RsvIds |-> IF id = RsvIdSeq[1] THEN r ELSE NoRsv] :
        r \in TaskRsvs \cup {NoRsv}}

InitTasks ==
    /\ channel = "k8s"
    /\ InitPubIdle
    /\ InitAcctIdle
    /\ InitCycIdle
    /\ InitTskIdle
    /\ strategy = "watch"
    /\ reservations \in TaskReservations
    /\ events = <<>>
    /\ instr = {}
    /\ instrB = {}
    /\ lastCall = NoCall
    /\ clock = 0
    /\ steps = [changes |-> 0, faults |-> 0, redeliveries |-> 0]

WatcherNext ==
    \/ WatcherStart
    \/ \E o \in {"ok", "fail"} : WatcherSelect(o)
    \/ \E raw \in RawEvents : \E f \in {"none", "write"} :
          WatcherEvent(raw, f, f)
    \/ WatcherStreamClosed

PollerNext ==
    \/ \E ff \in SUBSET {"requester", "provider"} :
          \E f \in {"none", "write"} : PollerStart(ff, f)
    \/ \E ff \in SUBSET {"requester", "provider"} :
          \E f \in {"none", "write"} : PollerSelect(ff, f)

NextTasks ==
    \/ \E f \in TaskFlags : Main(f)
    \/ WatcherNext
    \/ PollerNext
    \/ Signal

SpecTasks == InitTasks /\ [][NextTasks]_vars

\* the scheduler keeps running both goroutines
SpecTasksFair ==
    SpecTasks /\ WF_vars(WatcherNext) /\ WF_vars(PollerNext)

\* ======================================================================
\* Claims about the long-running tasks
\* ======================================================================

\* C23: the watcher's reconnect delay is always between 1 and 60 seconds:
\* the backoff starts at 1, each failed Watch sleeps the current backoff and
\* doubles it up to the ceiling of 60, and a Watch that opens sets it back
\* to 1.
C23_ReconnectDelay ==
    [][/\ wpc' # "off" => wBackoff' \in 1..60
       /\ wSlept' # wSlept => wSlept' \in 1..60
       /\ (wpc = "off" /\ wpc' # "off") => wBackoff' = 1
       /\ failureCount' = failureCount + 1 =>
             /\ wSlept' = wBackoff
             /\ wBackoff' = IF 2 * wBackoff > 60 THEN 60 ELSE 2 * wBackoff
       /\ (wpc = "select" /\ wpc' = "stream") =>
             wBackoff' = 1 /\ failureCount' = 0]_vars

\* the delay reached the ceiling and the next successful Watch reset it
C23_Witness ==
    /\ wpc = "stream"
    /\ wSlept = 60
    /\ wBackoff = 1
    /\ failureCount = 0

\* C24: an event whose object is not a record, or lacks its spec, both ids,
\* its status, its phase or its requested resources, makes no call and no
\* write to the local store, and the loop stays on the stream; Start
\* returns only once the signal was given.
C24_MalformedSkipped ==
    [][/\ (wpc = "stream" /\ lastCall' # lastCall
                          /\ lastCall'.ev.shape # "ok") =>
             /\ instr' = instr
             /\ lastCall'.calls = {}
             /\ wpc' = "stream"
       /\ wpc' = "returned" => signal]_vars

\* an event without a phase arrived after an instruction had been
\* written, and the watcher is still on the stream
C24_Witness ==
    /\ wpc = "stream"
    /\ lastCall.handler = "watch"
    /\ lastCall.ev.shape = "no-phase"
    /\ lastCall.ev.rsv.requester = ClusterID
    /\ instr # {}

\* C25: the initial poll and every tick fetch exactly twice, as requester
\* and then as provider, whichever of the two fails; a failed requester
\* fetch does not keep the provider's reservations from being processed,
\* and after any poll the poller waits for the next tick of the same
\* 30-second ticker.
C25_PollFetchesBothRoles ==
    [][(ppc'.state = "wait"
          /\ <<ppc, fetchLog, ticks, instr, lastCall>>'
                # <<ppc, fetchLog, ticks, instr, lastCall>>) =>
           /\ Len(fetchLog') = 2
           /\ fetchLog'[1].role = "requester"
           /\ fetchLog'[2].role = "provider"
           /\ ppc'.interval = 30
           /\ lastCall'.handler = "poll"
           /\ (fetchLog'[2].err = NoErr
                 /\ reservations[RsvIdSeq[1]].target = ClusterID) =>
                 \E c \in lastCall'.calls : c.fn = "provider"]_vars

\* a tick whose requester fetch failed still created the provider
\* instruction
C25_Witness ==
    /\ ppc = [state |-> "wait", interval |-> 30]
    /\ ticks >= 1
    /\ fetchLog[1].err # NoErr
    /\ fetchLog[2].err = NoErr
    /\ \E c \in lastCall.calls : c.fn = "provider" /\ c.err = NoErr
    /\ instr # {}

\* C29: once the signal is given, the watcher and the poller each return
\* (or were never started).
C29_TasksReturnAfterSignal ==
    signal ~> (wpc \in {"off", "returned"}
                 /\ ppc.state \in {"off", "returned"})

\* ======================================================================
\* Claims about the error a publish call surfaces
\* ======================================================================

\* C35: a PublishAdvertisement call that ended on an attempt failing with
\* a non-transient error surfaces that error, also when earlier attempts
\* of the call failed with transient errors; a transient error is surfaced
\* only when the last allowed attempt failed with it.
C35_PermanentErrorSurfaced ==
    (channel = "k8s" /\ pc = "done" /\ lastOutcome # NoErr) =>
        /\ ~isTransientError(lastOutcome) => result = lastOutcome
        /\ isTransientError(result) =>
              (attempt = Steps /\ result = lastOutcome)

\* ======================================================================
\* Further claims about the accounting
\* ======================================================================

\* C37: a hold whose requested CPU or memory cannot be parsed adds to
\* neither kind of the Reserved total, which is the sum over the other
\* live holds.
C37_UnparsableHoldNotCounted ==
    acct.state = "ok" =>
        /\ acct.reserved.cpu =
              SumOver([i \in 1..Len(holds) |->
                          IF LiveHold(holds[i], now) /\ WellFormed(holds[i])
                          THEN Amount(holds[i].requestedCPU) ELSE 0],
                      1..Len(holds))
        /\ acct.reserved.memory =
              SumOver([i \in 1..Len(holds) |->
                          IF LiveHold(holds[i], now) /\ WellFormed(holds[i])
                          THEN Amount(holds[i].requestedMemory) ELSE 0],
                      1..Len(holds))

\* some ready host reports a GPU amount
GpuReported ==
    \E i \in 1..Len(nodes) :
        isNodeReady(nodes[i]) /\ Has(nodes[i].capacity, "gpu")

\* C33: when no ready host reports a GPU amount, none of Capacity,
\* Allocatable, Allocated and Available carries a GPU figure, whatever the
\* workloads request; when one does, Capacity, Allocatable and Available
\* all carry one.
C33_GpuOnlyWhenReported ==
    acct.state = "ok" =>
        /\ ~GpuReported =>
              /\ ~acct.capacity.hasGPU /\ ~acct.allocatable.hasGPU
              /\ ~acct.allocated.hasGPU /\ ~acct.available.hasGPU
        /\ GpuReported =>
              /\ acct.capacity.hasGPU /\ acct.allocatable.hasGPU
              /\ acct.available.hasGPU

\* C34: a ProviderInstruction that is enforced and not expired stays
\* enforced: a step that leaves its name and Spec as they were (the same
\* Reserved reservation observed again by a repeated watch event or by the
\* replay of a new watch) does not set enforced back to false
C34_EnforcedStaysEnforced ==
    [][\A x \in instr :
          (x.kind = ProvKind /\ x.flag /\ ~pastExpiry(x, clock')) =>
              \A y \in Named(instr', ProvKind, x.name) :
                  y = [x EXCEPT !.flag = y.flag] => y.flag
      ]_vars

--------------------------------------------------------------------------
\* The poll strategy against a broker whose reply to FetchReservations is
\* not always narrowed to the asking cluster: the poller decodes the reply
\* and loops over it, looking at the phase only

\* the replies to FetchReservations(clusterID, role): the reservations this
\* cluster has that role in, or every reservation the broker holds
Replies(rs, role) == {fetchReservations(rs, role), rs}

\* poll() over the replies qr and qp to the two fetches
pollReplies(S, qr, qp, fr, fp) ==
    LET a == processFrom(S, qr, "requester", 1, fr)
        b == processFrom(a.store, qp, "provider", 1, fp)
    IN [store |-> b.store, calls |-> a.calls \cup b.calls]

\* the ticker fires: poll(), the broker replying qr and qp
PollReply(qr, qp, fr, fp) ==
    /\ strategy = "poll"
    /\ mayStep(faultCount(<<fr, fp>>))
    /\ LET h == pollReplies(instr, qr, qp, fr, fp)
       IN /\ instr' = h.store
          /\ lastCall' = [handler |-> "poll", ev |-> NoEvent, calls |-> h.calls]
    /\ steps' = [steps EXCEPT !.faults = @ + faultCount(<<fr, fp>>)]
    /\ UNCHANGED <<strategy, reservations, events, instrB, clock>>
    /\ UNCHANGED <<pubVars, acctVars, cycVars, tskVars>>

InitPollReply == InitDeliver /\ strategy = "poll"

NextPollReply ==
    \/ \E id \in RsvIds : \E r \in RsvStatesOf(id) : BrokerChange(id, r)
    \/ \E id \in RsvIds : BrokerDelete(id)
    \/ \E qr \in Replies(reservations, "requester"),
          qp \in Replies(reservations, "provider"),
          fr, fp \in {"none", "get", "write"} : PollReply(qr, qp, fr, fp)
    \/ \E n \in InstructionNames : ReconcileRequester(n)
    \/ \E n \in InstructionNames : ReconcileProvider(n)
    \/ Tick

SpecPollReply == InitPollReply /\ [][NextPollReply]_vars

\* C39: under the poll strategy a RequesterInstruction is created only for
\* a reservation whose requester is this cluster and a ProviderInstruction
\* only for one whose target is this cluster, also when the reply of the
\* broker contains reservations of other clusters
C39_PollCreatesOwnOnly ==
    lastCall.handler = "poll" =>
        \A c \in lastCall.calls :
            (c.was = "absent" /\ c.err = NoErr) =>
                /\ c.fn = "requester" => c.rsv.requester = ClusterID
                /\ c.fn = "provider" => c.rsv.target = ClusterID

--------------------------------------------------------------------------
\* The agent started over a local store that holds the instruction records
\* of an earlier run: main starts the watcher or the poller again, and a
\* new watch begins with an ADDED event for every reservation of the broker

\* the states reservation r1 was in when the earlier run recorded it, and
\* is in now
RestartStates ==
    {Rsv("Reserved", ClusterID, OtherCluster, "1", {}),
     Rsv("Reserved", ClusterID, OtherCluster, "2", {0}),
     Rsv("Reserved", OtherCluster, ClusterID, "1", {}),
     Rsv("Reserved", OtherCluster, ClusterID, "1", {0})}

InitRestart ==
    /\ channel = "k8s"
    /\ InitPubIdle
    /\ InitCycIdle
    /\ InitTskIdle
    /\ InitAcctIdle
    /\ strategy \in {"watch", "poll"}
    /\ \E r \in RestartStates :
          reservations = [id \in RsvIds |-> IF id = RsvIdSeq[1] THEN r
                                            ELSE NoRsv]
    /\ events = IF strategy = "watch" THEN initialEvents ELSE <<>>
    /\ \E r0 \in RestartStates, fl \in BOOLEAN :
          instr = {[x EXCEPT !.flag = fl] :
                     x \in watchHandle({}, Event("ADDED", RsvIdSeq[1], r0),
                                       "none", "none").store}
    /\ instrB = {}
    /\ lastCall = NoCall
    /\ clock = 0
    /\ steps = [changes |-> 0, faults |-> 0, redeliveries |-> 0]

SpecRestart == InitRestart /\ [][NextDeliver]_vars

\* the name of the record an upsert call is about
NameOf(c) ==
    IF c.fn = "requester" THEN requesterName(c.id, c.rsv)
    ELSE providerName(c.id, c.rsv)

\* C36: when upsertRequesterInstruction or upsertProviderInstruction
\* returns an error, the existing record is as it was before the call; in
\* particular no ReservationInstruction has its target, amounts or expiry
\* overwritten while still delivered=true
C36_FailedUpsertLeavesRecord ==
    [][lastCall'.handler = "watch" =>
          \A c \in lastCall'.calls :
              (c.was # "absent" /\ c.err \in StoreFaults) =>
                  Named(instr', KindOf(c.fn), NameOf(c))
                      = Named(instr, KindOf(c.fn), NameOf(c))
      ]_vars

\* C38: a reconciliation of an expired ProviderInstruction that is already
\* enforced=false writes nothing, as the ReservationInstruction reconciler
\* does for an expired record with delivered=false, so that the
\* reconciliations triggered by its own status updates come to an end
C38_ExpiredUnmarkedNotWritten ==
    [][ReconcileStep =>
          \A x \in Named(instr, lastCall'.ev.type, lastCall'.ev.id) :
              (pastExpiry(x, clock) /\ ~x.flag) => ~lastCall'.ev.wrote
      ]_vars

\* the step in which a cycle returns because accounting or the cluster-id
\* lookup failed
CycleFailedStep ==
    /\ reconcile.state = "started"
    /\ reconcile'.state = "none"
    /\ returned'.failedAt \in {"accounting", "cluster id"}

--------------------------------------------------------------------------
\* Discovery under fair scheduling: the agent starts against a broker that
\* already holds reservations; the watch loop handles every event it
\* receives and the ticker of the poller fires again and again

\* the reservations the broker holds when the agent starts
StartLists ==
    {[id \in RsvIds |-> IF id = RsvIdSeq[1] THEN a ELSE b] :
        a \in {NoRsv,
               Rsv("Reserved", ClusterID, OtherCluster, "1", {}),
               Rsv("Reserved", OtherCluster, ClusterID, "1", {}),
               Rsv("Reserved", ClusterID, ClusterID, "1", {})},
        b \in {NoRsv, Rsv("Reserved", OtherCluster, ClusterID, "1", {})}}

InitDiscovery ==
    /\ channel = "k8s"
    /\ InitPubIdle
    /\ InitCycIdle
    /\ InitTskIdle
    /\ InitAcctIdle
    /\ strategy \in {"watch", "poll"}
    /\ reservations \in StartLists
    /\ events = IF strategy = "watch" THEN initialEvents ELSE <<>>
    /\ instr = {}
    /\ instrB = {}
    /\ lastCall = NoCall
    /\ clock = 0
    /\ steps = [changes |-> 0, faults |-> 0, redeliveries |-> 0]

WatchLoop == \E fr, fp \in {"none"} \cup StoreFaults : WatchEvent(fr, fp)

PollTick ==
    \E ff \in SUBSET {"requester", "provider"},
       fr, fp \in {"none", "get", "write"} : Poll(ff, fr, fp)

\* the broker only deletes reservations after the start
NextDiscovery ==
    \/ \E id \in RsvIds : BrokerDelete(id)
    \/ WatchLoop
    \/ PollTick

SpecDiscovery == InitDiscovery /\ [][NextDiscovery]_vars

SpecDiscoveryFair ==
    SpecDiscovery /\ WF_vars(WatchLoop) /\ WF_vars(PollTick)

\* reservation id is in the broker's list for the role, in phase Reserved
Listed(id, role) ==
    hasRole(reservations[id], role) /\ reservations[id].phase = "Reserved"

\* a step of poll(): the handler that ran last is the poller, and neither
\* the broker nor the clock moved
PollStep ==
    /\ lastCall'.handler = "poll"
    /\ reservations' = reservations /\ clock' = clock

\* C40: a failed create call does not stop the loop of the poller (a poll
\* that reached one listed Reserved reservation of a role reached all of
\* them) nor the watch loop (the event is consumed and the next one stays
\* queued); and under the poll strategy, from any moment on, a moment
\* comes at which every reservation then listed in phase Reserved has its
\* instruction record
C40_FailureDoesNotStopDelivery ==
    /\ [][PollStep =>
            \A c \in lastCall'.calls : \A id \in RsvIds :
                Listed(id, c.fn) => \E d \in lastCall'.calls :
                                        d.fn = c.fn /\ d.id = id
         ]_vars
    /\ [][(strategy = "watch" /\ steps'.faults > steps.faults
              /\ \E c \in lastCall'.calls : c.err \in StoreFaults) =>
            events' = Tail(events)
         ]_vars
    /\ (strategy = "poll")
          ~> \A id \in RsvIds :
                /\ Listed(id, "requester") =>
                      RecordsFor(instr, ReqKind, id) # {}
                /\ Listed(id, "provider") =>
                      RecordsFor(instr, ProvKind, id) # {}

\* after a poll with failed calls, with two reservations listed for the
\* provider role, a later poll has created the record of one of them
C40_Witness ==
    /\ strategy = "poll"
    /\ steps.faults > 0
    /\ \A id \in RsvIds : Listed(id, "provider")
    /\ lastCall.handler = "poll"
    /\ \E c \in lastCall.calls :
          /\ c.was = "absent" /\ c.err = NoErr
          /\ Listed(c.id, c.fn)
          /\ RecordsFor(instr, KindOf(c.fn), c.id) # {}

--------------------------------------------------------------------------
\* The reconcilers under fair scheduling: the watcher records the
\* reservation the broker holds at the start, and the controller's work
\* queue hands each record to its reconciler again and again (the create
\* and every status update queue the record, every return asks for a
\* requeue, and a failed Reconcile is queued again; the model takes the
\* step when the store accepts the calls)

\* the reservation the broker holds when the agent starts
ReconcileLists ==
    {[id \in RsvIds |-> IF id = RsvIdSeq[1] THEN a ELSE NoRsv] :
        a \in {Rsv("Reserved", ClusterID, OtherCluster, "1", {}),
               Rsv("Reserved", ClusterID, OtherCluster, "2", {0}),
               Rsv("Reserved", OtherCluster, ClusterID, "1", {}),
               Rsv("Reserved", OtherCluster, ClusterID, "1", {0}),
               Rsv("Reserved", ClusterID, ClusterID, "1", {})}}

InitReconcile ==
    /\ channel = "k8s"
    /\ InitPubIdle
    /\ InitCycIdle
    /\ InitTskIdle
    /\ InitAcctIdle
    /\ strategy = "watch"
    /\ reservations \in ReconcileLists
    /\ events = initialEvents
    /\ instr = {}
    /\ instrB = {}
    /\ lastCall = NoCall
    /\ clock = 0
    /\ steps = [changes |-> 0, faults |-> 0, redeliveries |-> 0]

NextReconcile ==
    \/ WatchReconnect
    \/ WatchLoop
    \/ \E n \in InstructionNames : ReconcileRequester(n)
    \/ \E n \in InstructionNames : ReconcileProvider(n)
    \/ Tick

SpecReconcile == InitReconcile /\ [][NextReconcile]_vars

\* the two records the watcher writes for the reservation
SpecReconcileFair ==
    /\ SpecReconcile
    /\ WF_vars(ReconcileRequester(RsvIdSeq[1]))
    /\ WF_vars(ReconcileProvider(RsvIdSeq[1] \o <<"-provider">>))

\* C31: an instruction whose expiry is absent or in the future and that
\* discovery does not rewrite again is eventually marked by its reconciler
\* (enforced=true / delivered=true), and a marked instruction stays marked
\* until its expiry passes, in every step that is not a rewrite by the
\* watch loop
C31_EventuallyMarked ==
    /\ (instr # {}) ~> (\A x \in instr : x.flag \/ pastExpiry(x, clock))
    /\ [][\A x \in instr :
            (x.flag /\ ~pastExpiry(x, clock')
               /\ ~(events # <<>> /\ events' = Tail(events))) =>
                \A y \in Named(instr', x.kind, x.name) : y.flag
         ]_vars

\* a record with an expiry still ahead has been marked by its reconciler
C31_Witness ==
    /\ lastCall.handler = "reconcile"
    /\ lastCall.ev.was = "false"
    /\ clock = 0
    /\ \E x \in Named(instr, lastCall.ev.type, lastCall.ev.id) :
          x.flag /\ x.expiresAt = {0}


====
